---- MODULE Spec2Model ----
(***************************************************************************)
(* Trend Scout: the rank-history cache and content cache                   *)
(* (trendscout/store.py, SQLiteCache), the publish sink adapter            *)
(* (SupabasePublisher, DataStore) and the batch orchestration              *)
(* (daily_automation.py, production_collect.py).                           *)
(*                                                                         *)
(* Time is counted in ticks (TicksPerHour ticks to the hour); a date is    *)
(* the day number of a tick.  ISO-8601 strings of dates and of datetimes   *)
(* compare as the instants they denote, so they are kept as numbers.       *)
(***************************************************************************)
EXTENDS Integers, Sequences, FiniteSets, TLC

\* ------------------------------------------------------------------ bounds
MaxDay == 2
MaxObs == 3
TicksPerHour == 2
MaxTick == 3
MaxAgeHours == 1
MaxCalls == 2
MaxRaw == 61

\* ------------------------------------------------------------ input domains
Apps == {"a1", "a2"}
Categories == {"Utilities", "Productivity"}
Countries == {"US"}
Charts == {"free"}
SampleRanks == {5, 10}

\* timedelta(days=1), in ticks
TicksPerDay == 24 * TicksPerHour

RawAppRecord ==
    [app_id : Apps, category : Categories, country : Countries,
     chart : Charts, rank : SampleRanks]

\* the lists of records one call is given: none, one or two records
RecordLists ==
    {<<>>} \cup {<<r>> : r \in RawAppRecord}
           \cup {<<r, s>> : r \in RawAppRecord, s \in RawAppRecord}

\* the lookback windows asked for (7 is the default)
DaysBackValues == {0, 1, 7}

Elems(s) == {s[k] : k \in 1..Len(s)}

NoOp == [op |-> "none"]

VARIABLES
    now,              \* datetime.utcnow(), in ticks
    app_ranks,        \* table app_ranks: a set of rows
    nObs,             \* rows handed to store_ranks so far (bounds the model)
    app_html_cache,   \* table app_html_cache: a set of rows
    html_written,     \* per (app_id, country): what store_html was last given
    scout_results,    \* the sink's table scout_results: rows in insertion order
    nCalls,           \* calls that write to the sink so far (bounds the model)
    daily_rankings,   \* the sink's table daily_rankings: rows in insertion order
    lastOp,           \* the last operation, its arguments and what it returned
    mode,             \* which orchestrator runs: "daily" or "production"
    pc,               \* where the run stands
    raw_n,            \* len(raw_records)
    idx,              \* entries of raw_records the scrape loop has taken
    successful_scrapes,
    consecutive_failures,
    stopped,          \* the scrape loop was left by break
    scored_n,         \* len(scored_records)
    app_data_map,     \* the app ids that have attributes (the map's keys)
    run               \* what the run has done to the cache and the sink

rankVars == <<app_ranks, nObs>>
htmlVars == <<app_html_cache, html_written>>
sinkVars == <<scout_results, nCalls, daily_rankings>>
runVars == <<mode, pc, raw_n, idx, successful_scrapes, consecutive_failures,
             stopped, scored_n, app_data_map, run>>

vars == <<now, app_ranks, nObs, app_html_cache, html_written, scout_results,
          nCalls, daily_rankings, lastOp, mode, pc, raw_n, idx, successful_scrapes,
          consecutive_failures, stopped, scored_n, app_data_map, run>>

\* datetime.date(): the day a tick falls on
Date(t) == t \div TicksPerDay

\* ------------------------------------------------- SQLiteCache: rank history
\* PRIMARY KEY (app_id, category, country, chart, date)
RankKey(row) == <<row.app_id, row.category, row.country, row.chart, row.date>>

RankRow(record, date_str) ==
    [app_id |-> record.app_id, category |-> record.category,
     country |-> record.country, chart |-> record.chart,
     rank |-> record.rank, date |-> date_str]

\* a plain INSERT: the row is added beside the one that holds its key
InsertKeepingOld(table, row) == table \cup {row}

\* INSERT OR REPLACE INTO app_ranks
InsertOrReplace(table, row) ==
    {x \in table : RankKey(x) # RankKey(row)} \cup {row}

RECURSIVE StoreRows(_, _, _)
StoreRows(table, records, date_str) ==
    IF records = <<>> THEN table
    ELSE StoreRows(InsertOrReplace(table, RankRow(Head(records), date_str)),
                   Tail(records), date_str)

store_ranks(records) ==
    /\ nObs + Len(records) <= MaxObs
    /\ app_ranks' = StoreRows(app_ranks, records, Date(now))
    /\ nObs' = nObs + Len(records)
    /\ lastOp' = [op |-> "store_ranks", records |-> records]
    /\ UNCHANGED <<now, htmlVars, sinkVars, runVars>>

\* WHERE app_id = ? AND date >= ?
WhereAppSince(table, app_id, cutoff_date) ==
    {x \in table : x.app_id = app_id /\ x.date >= cutoff_date}

\* ORDER BY date DESC LIMIT 2: every result the query may return; rows of
\* one date come in an order SQL leaves open
OrderByDateDescLimit2(rows) ==
    IF rows = {} THEN {<<>>}
    ELSE IF Cardinality(rows) = 1 THEN {<<x>> : x \in rows}
    ELSE {s \in {<<x, y>> : x \in rows, y \in rows} :
              /\ s[1] # s[2]
              /\ s[1].date >= s[2].date
              /\ \A w \in rows \ {s[1], s[2]} : w.date <= s[2].date}

\* if len(rows) >= 1
AtLeastOneRow(rows) == Len(rows) >= 1

\* if len(rows) >= 2
HasTwoRows(rows) == Len(rows) >= 2

\* old_rank - current_rank
OldMinusCurrent(rows) == rows[Len(rows)].rank - rows[1].rank

\* current_rank - old_rank, with rows[0] and rows[-1]
RankDelta(rows) == rows[1].rank - rows[Len(rows)].rank

get_rank_deltas(app_ids, days_back) ==
    LET cutoff_date == Date(now - days_back * TicksPerDay)
        asked == Elems(app_ids)
        results(a) == OrderByDateDescLimit2(WhereAppSince(app_ranks, a, cutoff_date))
        all == UNION {results(a) : a \in asked}
    IN  /\ \E fetched \in [asked -> all] :
            /\ \A a \in asked : fetched[a] \in results(a)
            /\ lastOp' = [op |-> "get_rank_deltas", app_ids |-> app_ids,
                          days_back |-> days_back,
                          deltas |-> [a \in {b \in asked : HasTwoRows(fetched[b])}
                                          |-> RankDelta(fetched[a])]]
        /\ UNCHANGED <<now, rankVars, htmlVars, sinkVars, runVars>>

\* a day passes
AdvanceDay ==
    /\ Date(now) < MaxDay
    /\ now' = now + TicksPerDay
    /\ lastOp' = NoOp
    /\ UNCHANGED <<rankVars, htmlVars, sinkVars, runVars>>

AppIdLists == {<<"a1">>, <<"a1", "a2">>}

NoRun ==
    [cache_failed |-> FALSE, cached |-> FALSE, published |-> FALSE,
     sap_called |-> FALSE, sap_result |-> FALSE, publish_tried |-> FALSE,
     deletes |-> 0, inserts |-> 0, scored |-> FALSE, rankings_ops |-> 0]

\* the state after construction: empty tables, no run under way
InitIdle ==
    /\ now = 0
    /\ app_ranks = {}
    /\ nObs = 0
    /\ app_html_cache = {}
    /\ html_written = [k \in Apps \X Countries |-> <<>>]
    /\ scout_results = <<>>
    /\ nCalls = 0
    /\ daily_rankings = <<>>
    /\ lastOp = NoOp
    /\ pc = "idle"
    /\ raw_n = 0
    /\ idx = 0
    /\ successful_scrapes = 0
    /\ consecutive_failures = 0
    /\ stopped = FALSE
    /\ scored_n = 0
    /\ app_data_map = {}
    /\ run = NoRun

InitRanks ==
    /\ InitIdle
    /\ mode = "none"

StoreRanksStep == \E records \in RecordLists : store_ranks(records)

GetRankDeltasStep ==
    \E app_ids \in AppIdLists, days_back \in DaysBackValues :
        get_rank_deltas(app_ids, days_back)

NextRanks ==
    \/ StoreRanksStep
    \/ GetRankDeltasStep
    \/ AdvanceDay

SpecRanks == InitRanks /\ [][NextRanks]_vars

\* ------------------------------------------------ SQLiteCache: content cache
HtmlContents == {"", "<html>1</html>", "<html>2</html>"}

\* PRIMARY KEY (app_id, country)
HtmlKey(row) == <<row.app_id, row.country>>

\* INSERT OR REPLACE INTO app_html_cache
InsertOrReplaceHtml(table, row) ==
    {x \in table : HtmlKey(x) # HtmlKey(row)} \cup {row}

store_html(app_id, country, html) ==
    /\ app_html_cache' = InsertOrReplaceHtml(app_html_cache,
           [app_id |-> app_id, country |-> country, html |-> html, cached_at |-> now])
    /\ html_written' = [html_written EXCEPT ![<<app_id, country>>] = <<html>>]
    /\ lastOp' = [op |-> "store_html", app_id |-> app_id, country |-> country,
                  at |-> now]
    /\ UNCHANGED <<now, rankVars, sinkVars, runVars>>

\* cached_at >= cutoff_time
NotOlderThanCutoff(cached_at, cutoff_time) == cached_at >= cutoff_time

\* cached_at > cutoff_time
IsFresh(cached_at, cutoff_time) == cached_at > cutoff_time

\* Optional[str]: <<>> is None, <<html>> is the content
GetHtmlResult(table, clock, app_id, country, max_age_hours) ==
    LET cutoff_time == clock - max_age_hours * TicksPerHour
        found == {x \in table : x.app_id = app_id /\ x.country = country}
    IN  IF found = {} THEN <<>>
        ELSE LET row == CHOOSE x \in found : TRUE
             IN  IF IsFresh(row.cached_at, cutoff_time) THEN <<row.html>> ELSE <<>>

get_html(app_id, country, max_age_hours) ==
    /\ lastOp' = [op |-> "get_html", app_id |-> app_id, country |-> country,
                  max_age_hours |-> max_age_hours, at |-> now,
                  result |-> GetHtmlResult(app_html_cache, now, app_id, country,
                                           max_age_hours)]
    /\ UNCHANGED <<now, rankVars, htmlVars, sinkVars, runVars>>

\* the clock moves on by one tick
Tick ==
    /\ now < MaxTick
    /\ now' = now + 1
    /\ UNCHANGED <<rankVars, htmlVars, sinkVars, lastOp, runVars>>

InitHtml ==
    /\ InitIdle
    /\ mode = "none"

StoreHtmlStep ==
    \E app_id \in Apps, country \in Countries, html \in HtmlContents :
        store_html(app_id, country, html)

GetHtmlStep ==
    \E app_id \in Apps, country \in Countries, max_age_hours \in 0..MaxAgeHours :
        get_html(app_id, country, max_age_hours)

NextHtml ==
    \/ StoreHtmlStep
    \/ GetHtmlStep
    \/ Tick

SpecHtml == InitHtml /\ [][NextHtml]_vars

\* ------------------------------------------------------- SupabasePublisher
batch_size == 100

\* scored records stand for themselves: two different ones, in turn
ScoredOfLength(n) == [k \in 1..n |-> IF k % 2 = 1 THEN "r1" ELSE "r2"]

ScoredLists ==
    {ScoredOfLength(n) : n \in {0, 1, 2, batch_size + 1}} \cup {<<"r2", "r2">>}

\* generated_at is read once and shared by the rows
convert_to_db_rows(scored_records, utcnow) ==
    [k \in 1..Len(scored_records) |->
        [generated_at |-> utcnow, rec |-> scored_records[k]]]

\* a delete that removes nothing
DeleteNothing(table, generated_at) == table

\* table("scout_results").delete().eq("generated_at", generated_at)
DeleteEqGeneratedAt(table, generated_at) ==
    SelectSeq(table, LAMBDA row : row.generated_at # generated_at)

NumChunks(n) == (n + batch_size - 1) \div batch_size

\* db_rows[i:i + batch_size] of the c-th round of the loop
Chunk(db_rows, c) ==
    SubSeq(db_rows, (c - 1) * batch_size + 1,
           IF c * batch_size < Len(db_rows) THEN c * batch_size ELSE Len(db_rows))

\* a loop that goes on to the later chunks after a failed insert
InsertEveryChunk(table, db_rows, upto) == table \o db_rows

RECURSIVE InsertChunks(_, _, _)
InsertChunks(table, db_rows, upto) ==
    IF upto = 0 THEN table
    ELSE InsertChunks(table, db_rows, upto - 1) \o Chunk(db_rows, upto)

\* the sink's answers to one call: fail_at = 0, the delete raises;
\* fail_at = c in 1..NumChunks, the insert of chunk c raises or returns no
\* data; fail_at = NumChunks + 1, every operation succeeds
SinkAnswers(scored_records) == 0..(NumChunks(Len(scored_records)) + 1)

\* publish_results: what it returns and what it leaves in the sink
PublishOutcome(table, scored_records, utcnow, fail_at) ==
    IF scored_records = <<>>
    THEN [sink |-> table, ok |-> TRUE, deletes |-> 0,
          inserts |-> 0, generated_at |-> -1]
    ELSE LET db_rows == convert_to_db_rows(scored_records, utcnow)
             generated_at == db_rows[1].generated_at
             chunks == NumChunks(Len(db_rows))
         IN  IF fail_at = 0
             THEN [sink |-> table, ok |-> FALSE, deletes |-> 1,
                   inserts |-> 0, generated_at |-> generated_at]
             ELSE LET done == IF fail_at > chunks THEN chunks ELSE fail_at - 1
                  IN  [sink |-> InsertChunks(DeleteEqGeneratedAt(table, generated_at),
                                             db_rows, done),
                       ok |-> fail_at > chunks, deletes |-> 1,
                       inserts |-> IF fail_at > chunks THEN chunks ELSE fail_at,
                       generated_at |-> generated_at]

publish_results(scored_records, fail_at) ==
    LET out == PublishOutcome(scout_results, scored_records, now, fail_at)
    IN  /\ nCalls < MaxCalls
        /\ scout_results' = out.sink
        /\ nCalls' = nCalls + 1
        /\ lastOp' = [op |-> "publish_results", records |-> scored_records,
                      ok |-> out.ok, generated_at |-> out.generated_at,
                      deletes |-> out.deletes, inserts |-> out.inserts]
        /\ UNCHANGED <<now, rankVars, htmlVars, daily_rankings, runVars>>

InitPublish ==
    /\ InitIdle
    /\ mode = "none"

PublishStep ==
    \E scored_records \in ScoredLists :
        \E fail_at \in SinkAnswers(scored_records) :
            publish_results(scored_records, fail_at)

NextPublish ==
    \/ PublishStep
    \/ Tick

SpecPublish == InitPublish /\ [][NextPublish]_vars

\* --------------------------------------------------------------- DataStore
\* the cache write is best-effort: a failure of store_ranks is swallowed and
\* the publish goes ahead
StoreAndPublishBestEffort(table, scored_records, utcnow, cache_fails, fail_at) ==
    LET out == PublishOutcome(table, scored_records, utcnow, fail_at)
    IN  [sink |-> out.sink, ok |-> out.ok, cached |-> ~cache_fails,
         publish_tried |-> TRUE, published |-> out.ok,
         deletes |-> out.deletes, inserts |-> out.inserts]

\* store_and_publish: store_ranks, then publish_results, inside one try;
\* cache_fails says that store_ranks raises
StoreAndPublish(table, scored_records, utcnow, cache_fails, fail_at) ==
    IF cache_fails
    THEN [sink |-> table, ok |-> FALSE, cached |-> FALSE,
          publish_tried |-> FALSE, published |-> FALSE,
          deletes |-> 0, inserts |-> 0]
    ELSE LET out == PublishOutcome(table, scored_records, utcnow, fail_at)
         IN  [sink |-> out.sink, ok |-> out.ok, cached |-> TRUE,
              publish_tried |-> TRUE, published |-> out.ok,
              deletes |-> out.deletes, inserts |-> out.inserts]

\* ------------------------------------------------------------ orchestration
max_consecutive_failures == 10
RateCheckEvery == 10
RateCheckAfter == 50

\* the spec's stage of a position of the run
Stage(at) ==
    CASE at = "collect" -> "Collecting"
      [] at = "enrich" -> "Enriching"
      [] at = "score" -> "Scoring"
      [] at \in {"publish", "daily_rankings"} -> "Publishing"
      [] at = "done" -> "Done"
      [] at = "failed" -> "Failed"
      [] OTHER -> "Idle"

\* a run starts: DailyAutomation.run_daily_collection or
\* collect_with_conservative_limits
StartRun(m) ==
    /\ pc = "idle"
    /\ mode' = m
    /\ pc' = "collect"
    /\ UNCHANGED <<now, rankVars, htmlVars, sinkVars, lastOp, raw_n, idx,
                   successful_scrapes, consecutive_failures, stopped, scored_n,
                   app_data_map, run>>

\* fetcher.collect_all(config): n records come back, or the call raises
Collect(n, raises) ==
    /\ pc = "collect"
    /\ raw_n' = IF raises THEN 0 ELSE n
    /\ pc' = IF raises \/ n = 0 THEN "failed" ELSE "enrich"
    /\ UNCHANGED <<now, rankVars, htmlVars, sinkVars, lastOp, mode, idx,
                   successful_scrapes, consecutive_failures, stopped, scored_n,
                   app_data_map, run>>

\* success_rate < 0.5, with success_rate = successful_scrapes / i
RateBelowHalf(successes, i) == 2 * successes < i

\* if i % 10 == 0: ... if i > 50 and success_rate < 0.5: break
LowRateBreak(successes, i) ==
    /\ i % RateCheckEvery = 0
    /\ i > RateCheckAfter
    /\ RateBelowHalf(successes, i)

\* record.app_id of the i-th entry of raw_records: an app is listed in
\* several charts, so entries share app ids
RawAppId(i) == IF i % 2 = 1 THEN "a1" ELSE "a2"

\* one round of the scrape loop of _collect_all_categories; scraped says
\* whether the cache lookup, the fetch and the parse of the entry all succeed
DailyEnrichEntry(scraped) ==
    /\ mode = "daily"
    /\ pc = "enrich"
    /\ ~stopped
    /\ idx < raw_n
    /\ IF LowRateBreak(successful_scrapes, idx + 1)
       THEN /\ stopped' = TRUE
            /\ UNCHANGED <<idx, successful_scrapes, consecutive_failures,
                           app_data_map>>
       ELSE /\ idx' = idx + 1
            /\ IF scraped
               THEN /\ app_data_map' = app_data_map \cup {RawAppId(idx + 1)}
                    /\ successful_scrapes' = successful_scrapes + 1
                    /\ consecutive_failures' = 0
                    /\ UNCHANGED stopped
               ELSE /\ consecutive_failures' = consecutive_failures + 1
                    /\ stopped' = (consecutive_failures + 1 >= max_consecutive_failures)
                    /\ UNCHANGED <<successful_scrapes, app_data_map>>
    /\ UNCHANGED <<now, rankVars, htmlVars, sinkVars, lastOp, mode, pc, raw_n,
                   scored_n, run>>

\* the exception of a failing entry leaves the loop and ends the run
ProductionEnrichPropagating(scraped) ==
    /\ mode = "production"
    /\ pc = "enrich"
    /\ idx < raw_n
    /\ idx' = idx + 1
    /\ pc' = IF scraped THEN pc ELSE "failed"
    /\ app_data_map' = IF scraped THEN app_data_map \cup {RawAppId(idx + 1)}
                       ELSE app_data_map
    /\ successful_scrapes' = IF scraped THEN successful_scrapes + 1
                             ELSE successful_scrapes
    /\ UNCHANGED <<now, rankVars, htmlVars, sinkVars, lastOp, mode, raw_n,
                   consecutive_failures, stopped, scored_n, run>>

\* one round of the scrape loop of collect_with_conservative_limits
ProductionEnrichEntry(scraped) ==
    /\ mode = "production"
    /\ pc = "enrich"
    /\ idx < raw_n
    /\ idx' = idx + 1
    /\ UNCHANGED pc
    /\ app_data_map' = IF scraped THEN app_data_map \cup {RawAppId(idx + 1)}
                       ELSE app_data_map
    /\ successful_scrapes' = IF scraped THEN successful_scrapes + 1
                             ELSE successful_scrapes
    /\ UNCHANGED <<now, rankVars, htmlVars, sinkVars, lastOp, mode, raw_n,
                   consecutive_failures, stopped, scored_n, run>>

\* success_rate < 0.3, with success_rate = successful_scrapes / len(raw_records)
VeryLowRate(successes, n) == 10 * successes < 3 * n

\* after the scrape loop: daily gives up below 30% of raw_records,
\* production gives up on an empty app_data_map
TooFewAfterLoop(m, successes, n) ==
    IF m = "daily" THEN VeryLowRate(successes, n)
    ELSE successes = 0

\* the scrape loop is left; its counters go out of use
EndEnrich ==
    /\ pc = "enrich"
    /\ stopped \/ idx = raw_n
    /\ pc' = IF TooFewAfterLoop(mode, successful_scrapes, raw_n)
             THEN "failed" ELSE "score"
    /\ idx' = 0
    /\ successful_scrapes' = 0
    /\ consecutive_failures' = 0
    /\ UNCHANGED <<now, rankVars, htmlVars, sinkVars, lastOp, mode, raw_n,
                   stopped, scored_n, app_data_map, run>>

\* the sizes of scored_records the model tries: score_apps skips a record
\* without attributes or whose scoring raises, so any size up to
\* len(raw_records) can come back
ScoredSizes(n) == {k \in 0..n : k <= 2 \/ k = n}

\* get_rank_deltas and score_apps; raises says that get_rank_deltas raises
Score(k, raises) ==
    /\ pc = "score"
    /\ scored_n' = IF raises THEN 0 ELSE k
    /\ run' = [run EXCEPT !.scored = ~raises]
    /\ app_data_map' = {}
    /\ pc' = IF raises THEN "failed"
             ELSE IF mode = "production" /\ k = 0 THEN "failed"
             ELSE "publish"
    /\ UNCHANGED <<now, rankVars, htmlVars, sinkVars, lastOp, mode, raw_n, idx,
                   successful_scrapes, consecutive_failures, stopped>>

\* daily goes on to the rankings whatever scored_records holds
AfterPublishIgnoringEmpty(m, k, sap_ok) ==
    IF m = "production" THEN (IF sap_ok THEN "done" ELSE "failed")
    ELSE "daily_rankings"

\* production returns what store_and_publish returns; daily drops it and
\* returns False on an empty scored_records
AfterPublish(m, k, sap_ok) ==
    IF m = "production" THEN (IF sap_ok THEN "done" ELSE "failed")
    ELSE IF k = 0 THEN "failed" ELSE "daily_rankings"

\* self.store.store_and_publish(scored_records)
Publish(cache_fails, fail_at) ==
    LET out == StoreAndPublish(scout_results, ScoredOfLength(scored_n), now,
                               cache_fails, fail_at)
    IN  /\ pc = "publish"
        /\ scout_results' = out.sink
        /\ run' = [run EXCEPT !.sap_called = TRUE, !.sap_result = out.ok,
                              !.cache_failed = cache_fails, !.cached = out.cached,
                              !.publish_tried = out.publish_tried,
                              !.published = out.published,
                              !.deletes = out.deletes, !.inserts = out.inserts]
        /\ pc' = AfterPublish(mode, scored_n, out.ok)
        /\ UNCHANGED <<now, rankVars, htmlVars, nCalls, daily_rankings, lastOp, mode,
                       raw_n, idx,
                       successful_scrapes, consecutive_failures, stopped, scored_n,
                       app_data_map>>

\* phases 2 to 5 of run_daily_collection: _store_daily_rankings deletes the
\* day's daily_rankings rows and inserts the new ones; stored is False when
\* it fails or an earlier phase raises
StoreDailyRankings(stored) ==
    /\ pc = "daily_rankings"
    /\ run' = [run EXCEPT !.rankings_ops = 1]
    /\ pc' = IF stored THEN "done" ELSE "failed"
    /\ UNCHANGED <<now, rankVars, htmlVars, sinkVars, lastOp, mode, raw_n, idx,
                   successful_scrapes, consecutive_failures, stopped, scored_n,
                   app_data_map>>

InitRun ==
    /\ InitIdle
    /\ mode = "none"

StartRunStep == \E m \in {"daily", "production"} : StartRun(m)

CollectStep == \E n \in 0..MaxRaw, raises \in BOOLEAN : Collect(n, raises)

DailyEnrichStep == \E scraped \in BOOLEAN : DailyEnrichEntry(scraped)

ProductionEnrichStep == \E scraped \in BOOLEAN : ProductionEnrichEntry(scraped)

ScoreStep == \E k \in ScoredSizes(raw_n), raises \in BOOLEAN : Score(k, raises)

PublishRunStep ==
    \E cache_fails \in BOOLEAN :
        \E fail_at \in SinkAnswers(ScoredOfLength(scored_n)) :
            Publish(cache_fails, fail_at)

StoreDailyRankingsStep == \E stored \in BOOLEAN : StoreDailyRankings(stored)

NextRun ==
    \/ StartRunStep
    \/ CollectStep
    \/ DailyEnrichStep
    \/ ProductionEnrichStep
    \/ EndEnrich
    \/ ScoreStep
    \/ PublishRunStep
    \/ StoreDailyRankingsStep

SpecRun == InitRun /\ [][NextRun]_vars

\* ------------------------------------------------------ claims: rank history
\* the observations of app a dated on or after (today - days_back)
ObservationsSince(a, today, days_back) ==
    {x \in app_ranks : x.app_id = a /\ x.date >= today - days_back}

\* C5: get_rank_deltas leaves an app id out of its result whenever fewer than
\* two observations of the app are dated on or after (today - days_back); an
\* app id is in the result only if it was asked for and two such observations
\* exist, so no delta (and no delta of zero) is reported for the others.
C5_FewerThanTwoOmitted ==
    lastOp.op = "get_rank_deltas" =>
        \A a \in Apps :
            a \in DOMAIN lastOp.deltas =>
                /\ a \in Elems(lastOp.app_ids)
                /\ Cardinality(ObservationsSince(a, Date(now), lastOp.days_back)) >= 2

\* an app with two observations of which one lies outside the window is
\* asked for and left out
C5_Witness ==
    /\ lastOp.op = "get_rank_deltas"
    /\ "a1" \in Elems(lastOp.app_ids)
    /\ "a1" \notin DOMAIN lastOp.deltas
    /\ Cardinality({x \in app_ranks : x.app_id = "a1"}) = 2
    /\ Cardinality(ObservationsSince("a1", Date(now), lastOp.days_back)) = 1

\* C6: for an app asked for that has at least two observations in the window
\* (the day exactly days_back ago included) the result holds the rank of the
\* most recent observation minus the rank of the older of the two most recent
\* ones by date; it is negative exactly when the rank number went down.
C6_DeltaIsRecentMinusOlder ==
    lastOp.op = "get_rank_deltas" =>
        \A a \in Elems(lastOp.app_ids) :
            LET obs == ObservationsSince(a, Date(now), lastOp.days_back)
            IN  Cardinality(obs) >= 2 =>
                    /\ a \in DOMAIN lastOp.deltas
                    /\ \E recent \in obs, older \in obs :
                           /\ recent # older
                           /\ recent.date >= older.date
                           /\ \A x \in obs \ {recent, older} : x.date <= older.date
                           /\ lastOp.deltas[a] = recent.rank - older.rank
                           /\ (lastOp.deltas[a] < 0) <=> (recent.rank < older.rank)

\* rank 10 on the day exactly days_back ago, rank 5 today, a third observation
\* in the window: the delta is -5
C6_Witness ==
    /\ lastOp.op = "get_rank_deltas"
    /\ lastOp.days_back = 1
    /\ "a1" \in DOMAIN lastOp.deltas
    /\ lastOp.deltas["a1"] = -5
    /\ Cardinality(ObservationsSince("a1", Date(now), 1)) = 3
    /\ \E x \in app_ranks :
           x.app_id = "a1" /\ x.date = Date(now) - 1 /\ x.rank = 10
    /\ \E x \in app_ranks :
           x.app_id = "a1" /\ x.date = Date(now) /\ x.rank = 5

\* C7: rank history holds at most one row per key (app_id, category, country,
\* chart, date); after store_ranks every record's key holds exactly one row
\* and that row carries the rank of the last record stored under the key.
C7_OneRowPerKey ==
    /\ \A x \in app_ranks, y \in app_ranks : RankKey(x) = RankKey(y) => x = y
    /\ lastOp.op = "store_ranks" =>
           \A k \in 1..Len(lastOp.records) :
               LET key == RankKey(RankRow(lastOp.records[k], Date(now)))
                   later == {j \in k..Len(lastOp.records) :
                                RankKey(RankRow(lastOp.records[j], Date(now))) = key}
                   last == CHOOSE j \in later : \A i \in later : i <= j
               IN  {x.rank : x \in {y \in app_ranks : RankKey(y) = key}}
                       = {lastOp.records[last].rank}

\* a key stored three times, by an earlier call and twice by this one with
\* two different ranks, holds one row
C7_Witness ==
    /\ lastOp.op = "store_ranks"
    /\ Len(lastOp.records) = 2
    /\ lastOp.records[1].rank # lastOp.records[2].rank
    /\ RankKey(RankRow(lastOp.records[1], 0)) = RankKey(RankRow(lastOp.records[2], 0))
    /\ nObs = 3
    /\ Cardinality(app_ranks) = 1

\* ----------------------------------------------------- claims: content cache
\* the rows of the key get_html was last asked for
AskedRows ==
    {x \in app_html_cache : x.app_id = lastOp.app_id /\ x.country = lastOp.country}

\* C8 as stated: get_html returns absent exactly when no entry exists or the
\* entry's age exceeds max_age_hours, and the content otherwise, also at an
\* age equal to max_age_hours and with max_age_hours = 0.
C8_AbsentIffOlderThanMaxAge ==
    (lastOp.op = "get_html" /\ lastOp.at = now) =>
        (lastOp.result = <<>>) <=>
            \/ AskedRows = {}
            \/ \E x \in AskedRows :
                   now - x.cached_at > lastOp.max_age_hours * TicksPerHour

\* C8 as the code has it: get_html returns absent exactly when no entry exists
\* or the entry's age is at least max_age_hours (so always with
\* max_age_hours = 0); otherwise it returns what store_html was last given
\* for the key.
C8_AbsentIffAgeAtLeastMaxAge ==
    (lastOp.op = "get_html" /\ lastOp.at = now) =>
        /\ (lastOp.result = <<>>) <=>
               \/ AskedRows = {}
               \/ \E x \in AskedRows :
                      now - x.cached_at >= lastOp.max_age_hours * TicksPerHour
        /\ lastOp.result # <<>> =>
               lastOp.result = html_written[<<lastOp.app_id, lastOp.country>>]

\* an entry stored twice is asked for at an age of exactly max_age_hours > 0
\* and is absent
C8_Witness ==
    /\ lastOp.op = "get_html"
    /\ lastOp.at = now
    /\ lastOp.max_age_hours = 1
    /\ lastOp.result = <<>>
    /\ \E x \in AskedRows :
           /\ now - x.cached_at = TicksPerHour
           /\ x.html = "<html>2</html>"

\* ------------------------------------------------------ claims: publish sink
\* the rows of the sink that hold record r
CountOf(table, r) == Len(SelectSeq(table, LAMBDA row : row.rec = r))

\* the records of the sink's rows stamped generated_at, in insertion order
RecordsAt(table, generated_at) ==
    LET rows == SelectSeq(table, LAMBDA row : row.generated_at = generated_at)
    IN  [k \in 1..Len(rows) |-> rows[k].rec]

\* C1: publishing the same list of scored records twice in succession, both
\* calls succeeding, leaves the sink with the rows it held after the first
\* call: one row per record of the batch and no duplicates.
C1_RepublishLeavesSameRows ==
    [][(/\ lastOp.op = "publish_results"
        /\ lastOp.ok
        /\ nCalls' = nCalls + 1
        /\ lastOp'.ok
        /\ lastOp'.records = lastOp.records)
       => \A r \in {"r1", "r2"} :
              CountOf(scout_results', r) = CountOf(scout_results, r)]_vars

\* C2: the rows one publish_results call inserts share one generated_at, and
\* the rows the sink held under it are deleted before the first insert; after
\* a successful publish of a non-empty list the sink's rows under that
\* generated_at are exactly the records of the call, in order.
C2_RowsAtStampAreThisCall ==
    /\ (lastOp.op = "publish_results" /\ lastOp.ok /\ lastOp.records # <<>>) =>
           RecordsAt(scout_results, lastOp.generated_at) = lastOp.records
    /\ (lastOp.op = "publish_results" /\ lastOp.inserts > 0) => lastOp.deletes = 1

\* a second publish under the timestamp of the first: two calls, the rows of
\* the last one only
C2_Witness ==
    /\ lastOp.op = "publish_results"
    /\ lastOp.ok
    /\ nCalls = 2
    /\ Len(lastOp.records) = batch_size + 1
    /\ Len(scout_results) = batch_size + 1
    /\ \A k \in 1..Len(scout_results) :
           scout_results[k].generated_at = lastOp.generated_at

\* ------------------------------------------------------ claims: orchestration
\* C3 as stated: the cache write is best-effort; when store_ranks fails the
\* publish to the sink is still attempted and alone decides the result.
C3_PublishTriedAfterCacheFailure ==
    (run.sap_called /\ run.cache_failed) => run.publish_tried

\* C3 as the code has it: store_and_publish writes the cache and publishes
\* inside one try; when store_ranks fails the publish is not attempted, the
\* sink is not touched and the result is False; when store_ranks succeeds
\* the publish is attempted and the result is that of the sink write.
C3_CacheFailureFailsStoreAndPublish ==
    run.sap_called =>
        /\ run.cache_failed =>
               /\ ~run.publish_tried
               /\ ~run.sap_result
               /\ run.deletes = 0 /\ run.inserts = 0
        /\ ~run.cache_failed =>
               /\ run.publish_tried
               /\ run.cached
               /\ run.sap_result = run.published
        /\ (mode = "production" /\ pc = "done") => (run.cached /\ run.published)

\* a production run with records to publish whose cache write fails ends
\* Failed
C3_Witness ==
    /\ mode = "production"
    /\ pc = "failed"
    /\ scored_n > 0
    /\ run.sap_called
    /\ run.cache_failed

\* C4: once the scrape loop is left early (10 consecutive failures, or a low
\* success rate after the minimum sample) the run does no scoring and no
\* publishing and ends Failed.
C4_EarlyAbortEndsFailed ==
    stopped => pc \in {"enrich", "failed"}

\* C9: a run reports success only if publish_results wrote its scored
\* records to the sink: the delete and every insert succeeded.
C9_DoneOnlyIfPublished ==
    pc = "done" => run.published

\* the moves between stages: forward one stage at a time, or into Failed
StageMoves ==
    {<<"Idle", "Collecting">>, <<"Collecting", "Enriching">>,
     <<"Enriching", "Scoring">>, <<"Scoring", "Publishing">>,
     <<"Publishing", "Done">>}
        \cup {<<st, "Failed">> :
                 st \in {"Collecting", "Enriching", "Scoring", "Publishing"}}

\* C10: a run that collects no record, or scores none, ends Failed and sends
\* the sink no delete and no insert; the stages are entered in the order
\* Collecting, Enriching, Scoring, Publishing, Done, or left for Failed.
C10_EmptyRunFailsAndSparesSink ==
    /\ []((pc \in {"done", "failed"} /\ (raw_n = 0 \/ scored_n = 0)) =>
             /\ pc = "failed"
             /\ run.deletes = 0 /\ run.inserts = 0 /\ run.rankings_ops = 0)
    /\ [][Stage(pc') # Stage(pc) => <<Stage(pc), Stage(pc')>> \in StageMoves]_vars

\* a daily run whose records all fail to score: store_and_publish is handed
\* the empty list and the run ends Failed
C10_Witness ==
    /\ mode = "daily"
    /\ pc = "failed"
    /\ raw_n > 0
    /\ run.scored
    /\ scored_n = 0
    /\ run.sap_called
    /\ run.deletes = 0 /\ run.inserts = 0

MaxWords == 2
MaxDelta == 11

\* str.lower() on the letters the texts are written in
ToLower ==
    ("A" :> "a") @@ ("B" :> "b") @@ ("C" :> "c") @@ ("D" :> "d") @@ ("E" :> "e") @@ ("F" :> "f") @@
    ("G" :> "g") @@ ("H" :> "h") @@ ("I" :> "i") @@ ("J" :> "j") @@ ("K" :> "k") @@ ("L" :> "l") @@
    ("M" :> "m") @@ ("N" :> "n") @@ ("O" :> "o") @@ ("P" :> "p") @@ ("Q" :> "q") @@ ("R" :> "r") @@
    ("S" :> "s") @@ ("T" :> "t") @@ ("U" :> "u") @@ ("V" :> "v") @@ ("W" :> "w") @@ ("X" :> "x") @@
    ("Y" :> "y") @@ ("Z" :> "z")

Lower(text) ==
    [i \in 1..Len(text) |->
        IF text[i] \in DOMAIN ToLower THEN ToLower[text[i]] ELSE text[i]]

\* keyword in text: the keyword occurs as a substring
Contains(text, keyword) ==
    \E i \in 1..(Len(text) - Len(keyword) + 1) :
        \A j \in 1..Len(keyword) : text[i + j - 1] = keyword[j]

\* f"{name} {description}".lower()
TextToAnalyze(name, description) == Lower(name \o <<" ">> \o description)

\* sum(1 for keyword in keywords if keyword in text)
CountMatches(keywords, text) ==
    Cardinality({keyword \in keywords : Contains(text, keyword)})

\* AppScorer.LOW_COMPLEXITY_KEYWORDS
LOW_COMPLEXITY_KEYWORDS ==
    {<<"c", "o", "u", "n", "t", "e", "r">>,
     <<"t", "i", "m", "e", "r">>,
     <<"w", "i", "d", "g", "e", "t">>,
     <<"f", "i", "l", "t", "e", "r">>,
     <<"s", "c", "a", "n", "n", "e", "r">>,
     <<"q", "r">>,
     <<"p", "d", "f">>,
     <<"n", "o", "i", "s", "e">>,
     <<"r", "i", "n", "g", "t", "o", "n", "e">>,
     <<"c", "o", "l", "l", "a", "g", "e">>,
     <<"c", "o", "n", "v", "e", "r", "t", "e", "r">>,
     <<"c", "a", "l", "c", "u", "l", "a", "t", "o", "r">>,
     <<"f", "l", "a", "s", "h", "l", "i", "g", "h", "t">>,
     <<"m", "i", "r", "r", "o", "r">>,
     <<"r", "u", "l", "e", "r">>,
     <<"l", "e", "v", "e", "l">>,
     <<"c", "o", "m", "p", "a", "s", "s">>,
     <<"m", "a", "g", "n", "i", "f", "i", "e", "r">>,
     <<"r", "e", "c", "o", "r", "d", "e", "r">>,
     <<"n", "o", "t", "e">>,
     <<"m", "e", "m", "o">>,
     <<"r", "e", "m", "i", "n", "d", "e", "r">>,
     <<"l", "i", "s", "t">>,
     <<"s", "i", "m", "p", "l", "e">>,
     <<"b", "a", "s", "i", "c">>,
     <<"e", "a", "s", "y">>}

\* AppScorer.HIGH_MOAT_KEYWORDS
HIGH_MOAT_KEYWORDS ==
    {<<"o", "f", "f", "i", "c", "i", "a", "l">>,
     <<"d", "i", "s", "n", "e", "y">>,
     <<"m", "a", "r", "v", "e", "l">>,
     <<"s", "n", "a", "p", "c", "h", "a", "t">>,
     <<"t", "i", "k", "t", "o", "k">>,
     <<"i", "n", "s", "t", "a", "g", "r", "a", "m">>,
     <<"f", "a", "c", "e", "b", "o", "o", "k">>,
     <<"t", "w", "i", "t", "t", "e", "r">>,
     <<"y", "o", "u", "t", "u", "b", "e">>,
     <<"n", "e", "t", "f", "l", "i", "x">>,
     <<"s", "p", "o", "t", "i", "f", "y">>,
     <<"a", "m", "a", "z", "o", "n">>,
     <<"g", "o", "o", "g", "l", "e">>,
     <<"a", "p", "p", "l", "e">>,
     <<"m", "i", "c", "r", "o", "s", "o", "f", "t">>,
     <<"a", "d", "o", "b", "e">>,
     <<"s", "o", "n", "y">>,
     <<"n", "i", "n", "t", "e", "n", "d", "o">>,
     <<"p", "o", "k", "e", "m", "o", "n">>,
     <<"s", "t", "a", "r", " ", "w", "a", "r", "s">>,
     <<"m", "i", "n", "e", "c", "r", "a", "f", "t">>,
     <<"f", "o", "r", "t", "n", "i", "t", "e">>,
     <<"c", "o", "c", "a", " ", "c", "o", "l", "a">>,
     <<"m", "c", "d", "o", "n", "a", "l", "d", "s">>,
     <<"n", "i", "k", "e">>,
     <<"a", "d", "i", "d", "a", "s">>,
     <<"u", "b", "e", "r">>,
     <<"a", "i", "r", "b", "n", "b">>,
     <<"t", "e", "s", "l", "a">>}

\* paywall_indicators of compute_monetization_score
paywall_indicators ==
    {<<"p", "r", "e", "m", "i", "u", "m">>,
     <<"p", "r", "o">>,
     <<"s", "u", "b", "s", "c", "r", "i", "p", "t", "i", "o", "n">>,
     <<"u", "p", "g", "r", "a", "d", "e">>,
     <<"u", "n", "l", "o", "c", "k">>,
     <<"p", "a", "y", "w", "a", "l", "l">>,
     <<"p", "u", "r", "c", "h", "a", "s", "e">>,
     <<"b", "u", "y">>,
     <<"p", "a", "y", "m", "e", "n", "t">>,
     <<"b", "i", "l", "l", "i", "n", "g">>}

\* complexity_indicators of compute_low_complexity_score
complexity_indicators ==
    {<<"a", "i">>,
     <<"m", "l">>,
     <<"m", "a", "c", "h", "i", "n", "e", " ", "l", "e", "a", "r", "n", "i", "n", "g">>,
     <<"n", "e", "u", "r", "a", "l">>,
     <<"a", "l", "g", "o", "r", "i", "t", "h", "m">>,
     <<"a", "n", "a", "l", "y", "t", "i", "c", "s">>,
     <<"c", "o", "m", "p", "l", "e", "x">>,
     <<"a", "d", "v", "a", "n", "c", "e", "d">>,
     <<"p", "r", "o", "f", "e", "s", "s", "i", "o", "n", "a", "l">>,
     <<"e", "n", "t", "e", "r", "p", "r", "i", "s", "e">>,
     <<"b", "u", "s", "i", "n", "e", "s", "s">>,
     <<"w", "o", "r", "k", "f", "l", "o", "w">>,
     <<"i", "n", "t", "e", "g", "r", "a", "t", "i", "o", "n">>}

\* trademark_indicators of compute_moat_risk_score
trademark_indicators ==
    {<<"t", "m">>,
     <<"(R)">>,
     <<"(C)">>,
     <<"t", "r", "a", "d", "e", "m", "a", "r", "k">>,
     <<"c", "o", "p", "y", "r", "i", "g", "h", "t">>,
     <<"p", "a", "t", "e", "n", "t">>,
     <<"l", "i", "c", "e", "n", "s", "e", "d">>,
     <<"a", "u", "t", "h", "o", "r", "i", "z", "e", "d">>,
     <<"c", "e", "r", "t", "i", "f", "i", "e", "d">>,
     <<"v", "e", "r", "i", "f", "i", "e", "d">>}

\* ---------------------------------------------------- compute_demand_score
\* the chain of elifs on rank_delta7d with "<= 5" tested before "== 0"
RankContributionNoChangeLast(rank_delta7d) ==
    IF rank_delta7d <= -10 THEN 200
    ELSE IF rank_delta7d <= -5 THEN 150
    ELSE IF rank_delta7d <= -1 THEN 100
    ELSE IF rank_delta7d <= 5 THEN 0
    ELSE IF rank_delta7d = 0 THEN 50
    ELSE -50

\* the chain of elifs on rank_delta7d: the first test that holds decides
RankContribution(rank_delta7d) ==
    IF rank_delta7d <= -10 THEN 200
    ELSE IF rank_delta7d <= -5 THEN 150
    ELSE IF rank_delta7d <= -1 THEN 100
    ELSE IF rank_delta7d = 0 THEN 50
    ELSE IF rank_delta7d <= 5 THEN 0
    ELSE -50

\* bonus from rating volume
RatingBonus(rating_count) ==
    IF rating_count >= 10000 THEN 100
    ELSE IF rating_count >= 1000 THEN 50
    ELSE IF rating_count >= 100 THEN 25
    ELSE 0

\* if recent_reviews and len(recent_reviews) >= 3; None and [] are both false
ReviewBonus(recent_reviews) ==
    IF recent_reviews # <<>> /\ recent_reviews[1] # <<>> /\ Len(recent_reviews[1]) >= 3
    THEN 50 ELSE 0

\* the score is returned as it is
NoClamp(score) == score

\* max(1.0, min(5.0, score))
Clamp(score) ==
    LET capped == IF score < 500 THEN score ELSE 500
    IN  IF capped > 100 THEN capped ELSE 100

compute_demand_score(rank_delta7d, rating_count, recent_reviews) ==
    Clamp(100 + (IF rank_delta7d # <<>> THEN RankContribution(rank_delta7d[1]) ELSE 0)
              + RatingBonus(rating_count)
              + ReviewBonus(recent_reviews))

\* ----------------------------------------------- compute_monetization_score
\* free with IAP always scores 3.0: the description is not looked at
MonetizationIgnoringDescription(price, has_iap, description) ==
    IF price > 0 THEN (IF has_iap THEN 500 ELSE 300)
    ELSE IF has_iap THEN 300 ELSE 100

\* price is in cents
compute_monetization_score(price, has_iap, description) ==
    IF price > 0
    THEN (IF has_iap THEN 500 ELSE 300)
    ELSE IF has_iap
         THEN LET desc_lower == Lower(description)
                  indicator_count == CountMatches(paywall_indicators, desc_lower)
              IN  IF indicator_count >= 3 THEN 400 ELSE 300
         ELSE 100

\* --------------------------------------------- compute_low_complexity_score
\* the complexity vocabulary is always consulted and lowers the score
LowComplexityMixingVocabularies(name, description) ==
    LET text_to_analyze == TextToAnalyze(name, description)
        keyword_matches == CountMatches(LOW_COMPLEXITY_KEYWORDS, text_to_analyze)
        complexity_matches == CountMatches(complexity_indicators, text_to_analyze)
    IN  IF complexity_matches >= 2 THEN 100
        ELSE IF complexity_matches >= 1 THEN 200
        ELSE IF keyword_matches >= 3 THEN 500
        ELSE IF keyword_matches >= 2 THEN 400
        ELSE IF keyword_matches >= 1 THEN 300
        ELSE 250

compute_low_complexity_score(name, description) ==
    LET text_to_analyze == TextToAnalyze(name, description)
        keyword_matches == CountMatches(LOW_COMPLEXITY_KEYWORDS, text_to_analyze)
    IN  IF keyword_matches >= 3 THEN 500
        ELSE IF keyword_matches >= 2 THEN 400
        ELSE IF keyword_matches >= 1 THEN 300
        ELSE LET complexity_matches ==
                     CountMatches(complexity_indicators, text_to_analyze)
             IN  IF complexity_matches >= 2 THEN 100
                 ELSE IF complexity_matches >= 1 THEN 200
                 ELSE 250

\* -------------------------------------------------- compute_moat_risk_score
\* a text without brand and without trademark indicator scores the middle 3.0
MoatRiskDefaultModerate(name, description) ==
    LET text_to_analyze == TextToAnalyze(name, description)
        brand_matches == CountMatches(HIGH_MOAT_KEYWORDS, text_to_analyze)
    IN  IF brand_matches >= 2 THEN 500
        ELSE IF brand_matches >= 1 THEN 400
        ELSE 300

compute_moat_risk_score(name, description) ==
    LET text_to_analyze == TextToAnalyze(name, description)
        brand_matches == CountMatches(HIGH_MOAT_KEYWORDS, text_to_analyze)
    IN  IF brand_matches >= 2 THEN 500
        ELSE IF brand_matches >= 1 THEN 400
        ELSE LET trademark_matches ==
                     CountMatches(trademark_indicators, text_to_analyze)
             IN  IF trademark_matches >= 1 THEN 300 ELSE 100

\* ------------------------------------------------------ compute_total_score
\* moat risk enters as it is, not inverted
WeightedSumMoatNotInverted(demand, monetization, low_complexity, moat_risk) ==
    35 * demand + 25 * monetization + 25 * low_complexity + 15 * moat_risk

\* 0.35*demand + 0.25*monetization + 0.25*low_complexity + 0.15*(5.0 - moat_risk),
\* in ten-thousandths
WeightedSum(demand, monetization, low_complexity, moat_risk) ==
    35 * demand + 25 * monetization + 25 * low_complexity + 15 * (500 - moat_risk)

\* round(total, 2) of a value given in ten-thousandths: the nearest hundredth;
\* half way between two hundredths the binary value of the float sum decides,
\* so either neighbour can come out
Round2(total) ==
    LET below == total \div 100
        rest == total % 100
    IN  IF rest < 50 THEN {below}
        ELSE IF rest > 50 THEN {below + 1}
        ELSE {below, below + 1}

\* the values compute_total_score can return
compute_total_score(demand, monetization, low_complexity, moat_risk) ==
    Round2(WeightedSum(demand, monetization, low_complexity, moat_risk))

\* ------------------------------------------------------------ scorer inputs
SeqsUpTo(S, n) == UNION {[1..k -> S] : k \in 0..n}

\* " ".join(words)
RECURSIVE JoinWords(_)
JoinWords(words) ==
    IF words = <<>> THEN <<>>
    ELSE IF Len(words) = 1 THEN words[1]
    ELSE words[1] \o <<" ">> \o JoinWords(Tail(words))

\* the texts of at most n words
Texts(words, n) == {JoinWords(ws) : ws \in SeqsUpTo(words, n)}

\* words for names and descriptions given to compute_low_complexity_score
ComplexityWords ==
    {<<"T", "i", "m", "e", "r">>,
     <<"Q", "R">>,
     <<"N", "o", "t", "e", "s">>,
     <<"A", "I">>,
     <<"E", "m", "a", "i", "l">>,
     <<"W", "o", "r", "k", "f", "l", "o", "w">>,
     <<"P", "h", "o", "t", "o">>}

\* words for names and descriptions given to compute_moat_risk_score
MoatWords ==
    {<<"D", "i", "s", "n", "e", "y">>,
     <<"N", "e", "t", "f", "l", "i", "x">>,
     <<"A", "T", "M">>,
     <<"C", "e", "r", "t", "i", "f", "i", "e", "d">>,
     <<"S", "t", "a", "r">>,
     <<"W", "a", "r", "s">>,
     <<"M", "a", "x", "(TM)">>,
     <<"P", "h", "o", "t", "o">>}

\* words for descriptions given to compute_monetization_score
PaywallWords ==
    {<<"P", "r", "e", "m", "i", "u", "m">>,
     <<"P", "r", "o">>,
     <<"U", "n", "l", "o", "c", "k">>,
     <<"U", "p", "g", "r", "a", "d", "e">>,
     <<"I", "m", "p", "r", "o", "v", "e">>,
     <<"P", "h", "o", "t", "o">>}

\* rank deltas: None, or a change of up to MaxDelta places either way
OptionalDeltas == {<<>>} \cup {<<d>> : d \in (0 - MaxDelta)..MaxDelta}

\* rating counts on both sides of each threshold
RatingCounts == {0, 99, 100, 999, 1000, 9999, 10000}

\* recent_reviews: None, or a list of zero to four reviews
OptionalReviews ==
    {<<>>, <<<<>>>>, <<<<"r1", "r2">>>>, <<<<"r1", "r2", "r3">>>>,
     <<<<"r1", "r2", "r3", "r4">>>>}

\* prices in cents: free and paid
Prices == {0, 99}

\* sub-scores from 1.0 to 5.0 in steps of 0.5
SubScores == {100 + 50 * k : k \in 0..8}

\* AppPageData, the fields the scorer reads
AppPageData ==
    [price : Prices, has_iap : BOOLEAN, rating_count : {0, 100, 1000, 10000},
     recent_reviews : {<<>>, <<<<"r1", "r2", "r3">>>>}]

\* the names of the apps that score_app is given
AppNames == Texts(ComplexityWords \cup MoatWords, 1)

\* RawAppRecord with the fields the scorer reads
NamedRawAppRecord == [app_id : Apps, name : AppNames, rank : SampleRanks]

\* ------------------------------------------------------ score_app, score_apps
\* the Field constraints of ScoredAppRecord (ge, le)
ScoredAppRecordValid(rec) ==
    /\ rec.rank >= 1 /\ rec.rank <= 25
    /\ rec.price >= 0
    /\ rec.rating_count >= 0
    /\ rec.demand >= 100 /\ rec.demand <= 500
    /\ rec.monetization >= 100 /\ rec.monetization <= 500
    /\ rec.low_complexity >= 100 /\ rec.low_complexity <= 500
    /\ rec.moat_risk >= 100 /\ rec.moat_risk <= 500
    /\ rec.total >= 0 /\ rec.total <= 500

\* ScoredAppRecord(...): <<record>>, or <<>> when the validation raises
ScoredAppRecord(rec) == IF ScoredAppRecordValid(rec) THEN <<rec>> ELSE <<>>

\* a score_app that gives the monetization score a description naming
\* three paywall terms
ScoreAppReadingDescription(raw_record, app_data, rank_delta7d) ==
    LET demand == compute_demand_score(rank_delta7d, app_data.rating_count,
                                       app_data.recent_reviews)
        monetization == compute_monetization_score(app_data.price,
                                                   app_data.has_iap,
                                                   JoinWords(<<<<"P", "r", "o">>,
                                                               <<"U", "n", "l", "o", "c", "k">>,
                                                               <<"U", "p", "g", "r", "a", "d", "e">>>>))
        low_complexity == compute_low_complexity_score(raw_record.name, <<>>)
        moat_risk == compute_moat_risk_score(raw_record.name, <<>>)
    IN  {ScoredAppRecord(
            [app_id |-> raw_record.app_id, name |-> raw_record.name,
             rank |-> raw_record.rank, price |-> app_data.price,
             has_iap |-> app_data.has_iap, rating_count |-> app_data.rating_count,
             rank_delta7d |-> rank_delta7d, demand |-> demand,
             monetization |-> monetization, low_complexity |-> low_complexity,
             moat_risk |-> moat_risk, total |-> total]) :
         total \in compute_total_score(demand, monetization, low_complexity,
                                       moat_risk)}

\* the outcomes of score_app: <<record>>, or <<>> when it raises; the
\* descriptions given to the three text scores are ""
score_app(raw_record, app_data, rank_delta7d) ==
    LET demand == compute_demand_score(rank_delta7d, app_data.rating_count,
                                       app_data.recent_reviews)
        monetization == compute_monetization_score(app_data.price,
                                                   app_data.has_iap, <<>>)
        low_complexity == compute_low_complexity_score(raw_record.name, <<>>)
        moat_risk == compute_moat_risk_score(raw_record.name, <<>>)
    IN  {ScoredAppRecord(
            [app_id |-> raw_record.app_id, name |-> raw_record.name,
             rank |-> raw_record.rank, price |-> app_data.price,
             has_iap |-> app_data.has_iap, rating_count |-> app_data.rating_count,
             rank_delta7d |-> rank_delta7d, demand |-> demand,
             monetization |-> monetization, low_complexity |-> low_complexity,
             moat_risk |-> moat_risk, total |-> total]) :
         total \in compute_total_score(demand, monetization, low_complexity,
                                       moat_risk)}

\* rank_deltas.get(app_id, 0): an app without delta counts as unchanged
RankDeltaOrZero(rank_deltas, app_id) ==
    IF rank_deltas # <<>> /\ app_id \in DOMAIN rank_deltas[1]
    THEN <<rank_deltas[1][app_id]>> ELSE <<0>>

\* rank_deltas.get(app_id) if rank_deltas else None; None and {} are both false
RankDeltaOf(rank_deltas, app_id) ==
    IF rank_deltas # <<>> /\ app_id \in DOMAIN rank_deltas[1]
    THEN <<rank_deltas[1][app_id]>> ELSE <<>>

\* a record without attributes is scored as a free app without ratings
ScoreOneWithDefaults(raw_record, attributes, rank_deltas) ==
    score_app(raw_record,
              IF raw_record.app_id \in DOMAIN attributes
              THEN attributes[raw_record.app_id]
              ELSE [price |-> 0, has_iap |-> FALSE, rating_count |-> 0,
                    recent_reviews |-> <<>>],
              RankDeltaOf(rank_deltas, raw_record.app_id))

\* one round of the loop of score_apps: what it appends to scored_records,
\* <<>> when the record is skipped or score_app raises
ScoreOne(raw_record, attributes, rank_deltas) ==
    IF raw_record.app_id \notin DOMAIN attributes THEN {<<>>}
    ELSE score_app(raw_record, attributes[raw_record.app_id],
                   RankDeltaOf(rank_deltas, raw_record.app_id))

\* the lists score_apps can return
RECURSIVE score_apps(_, _, _)
score_apps(raw_records, attributes, rank_deltas) ==
    IF raw_records = <<>> THEN {<<>>}
    ELSE {first \o rest :
            first \in ScoreOne(Head(raw_records), attributes, rank_deltas),
            rest \in score_apps(Tail(raw_records), attributes, rank_deltas)}

\* the records score_app is given: one app at one rank under every name
ScoreAppRecords == {r \in NamedRawAppRecord : r.app_id = "a1" /\ r.rank = 5}

\* the batches score_apps is given: up to MaxBatch records of two apps under
\* two names, attributes for none, one or both apps, and rank deltas that
\* are None or a map with a delta for none, one or both apps
MaxBatch == 3

BatchNames ==
    {<<"T", "i", "m", "e", "r">>, <<"D", "i", "s", "n", "e", "y">>}

BatchRecords == {r \in NamedRawAppRecord : r.name \in BatchNames /\ r.rank = 5}

BatchAppData ==
    {[price |-> 0, has_iap |-> TRUE, rating_count |-> 1000, recent_reviews |-> <<>>],
     [price |-> 99, has_iap |-> FALSE, rating_count |-> 0, recent_reviews |-> <<>>]}

\* the dicts with keys in D and values in R
Dicts(D, R) == UNION {[K -> R] : K \in SUBSET D}

BatchRankDeltas == {<<>>} \cup {<<deltas>> : deltas \in Dicts(Apps, {-5, 0})}

\* ------------------------------------------------- the scorer's operations
\* the scorer keeps no state: one behaviour applies one function once, and
\* nothing but the record of the call changes
ScorerFrame ==
    /\ lastOp = NoOp
    /\ UNCHANGED <<now, rankVars, htmlVars, sinkVars, runVars>>

ComputeDemandStep ==
    /\ ScorerFrame
    /\ \E rank_delta7d \in OptionalDeltas, rating_count \in RatingCounts,
          recent_reviews \in OptionalReviews :
           /\ lastOp' = [op |-> "compute_demand_score",
                         rank_delta7d |-> rank_delta7d,
                         rating_count |-> rating_count,
                         recent_reviews |-> recent_reviews,
                         result |-> compute_demand_score(rank_delta7d, rating_count,
                                                         recent_reviews)]

ComputeMonetizationStep ==
    /\ ScorerFrame
    /\ \E price \in Prices, has_iap \in BOOLEAN,
          description \in Texts(PaywallWords, MaxWords + 1) :
           /\ lastOp' = [op |-> "compute_monetization_score", price |-> price,
                         has_iap |-> has_iap, description |-> description,
                         result |-> compute_monetization_score(price, has_iap,
                                                               description)]

ComputeLowComplexityStep ==
    /\ ScorerFrame
    /\ \E name \in Texts(ComplexityWords, 1),
          description \in Texts(ComplexityWords, MaxWords) :
           /\ lastOp' = [op |-> "compute_low_complexity_score", name |-> name,
                         description |-> description,
                         result |-> compute_low_complexity_score(name, description)]

ComputeMoatRiskStep ==
    /\ ScorerFrame
    /\ \E name \in Texts(MoatWords, 1), description \in Texts(MoatWords, MaxWords) :
           /\ lastOp' = [op |-> "compute_moat_risk_score", name |-> name,
                         description |-> description,
                         result |-> compute_moat_risk_score(name, description)]

ComputeTotalStep ==
    /\ ScorerFrame
    /\ \E demand \in SubScores, monetization \in SubScores,
          low_complexity \in SubScores, moat_risk \in SubScores :
           \E total \in compute_total_score(demand, monetization, low_complexity,
                                            moat_risk) :
               /\ lastOp' = [op |-> "compute_total_score", demand |-> demand,
                             monetization |-> monetization,
                             low_complexity |-> low_complexity,
                             moat_risk |-> moat_risk, result |-> total]

ScoreAppStep ==
    /\ ScorerFrame
    /\ \E raw_record \in ScoreAppRecords, app_data \in AppPageData,
          rank_delta7d \in OptionalDeltas :
           \E outcome \in score_app(raw_record, app_data, rank_delta7d) :
               /\ lastOp' = [op |-> "score_app", raw_record |-> raw_record,
                             app_data |-> app_data, rank_delta7d |-> rank_delta7d,
                             result |-> outcome]

ScoreAppsStep ==
    /\ ScorerFrame
    /\ \E raw_records \in SeqsUpTo(BatchRecords, MaxBatch),
          attributes \in Dicts(Apps, BatchAppData),
          rank_deltas \in BatchRankDeltas :
           \E scored_records \in score_apps(raw_records, attributes, rank_deltas) :
               /\ lastOp' = [op |-> "score_apps", raw_records |-> raw_records,
                             app_data_map |-> attributes,
                             rank_deltas |-> rank_deltas,
                             result |-> scored_records]

InitScorer ==
    /\ InitIdle
    /\ mode = "none"

NextScorer ==
    \/ ComputeDemandStep
    \/ ComputeMonetizationStep
    \/ ComputeLowComplexityStep
    \/ ComputeMoatRiskStep
    \/ ComputeTotalStep
    \/ ScoreAppStep
    \/ ScoreAppsStep

SpecScorer == InitScorer /\ [][NextScorer]_vars

\* ------------------------------------------------------------ claims: scorer
\* the observations of a batch whose app id has attributes, in input order
WithAttributes(raw_records, attributes) ==
    SelectSeq(raw_records, LAMBDA r : r.app_id \in DOMAIN attributes)

\* C12: score_apps returns exactly one scored record for each observation of
\* the input whose app id is a key of the attributes map, in input order, and
\* nothing for an observation whose app id has no attributes; a missing entry
\* neither raises nor keeps later observations from being scored.
C12_OneRecordPerObservationWithAttributes ==
    lastOp.op = "score_apps" =>
        LET kept == WithAttributes(lastOp.raw_records, lastOp.app_data_map)
        IN  /\ Len(lastOp.result) = Len(kept)
            /\ \A k \in 1..Len(kept) :
                   /\ lastOp.result[k].app_id = kept[k].app_id
                   /\ lastOp.result[k].name = kept[k].name
                   /\ lastOp.result[k].rank = kept[k].rank

\* of three observations the second has no attributes; the first and the
\* third are scored
C12_Witness ==
    /\ lastOp.op = "score_apps"
    /\ Len(lastOp.raw_records) = 3
    /\ lastOp.raw_records[1].app_id \in DOMAIN lastOp.app_data_map
    /\ lastOp.raw_records[2].app_id \notin DOMAIN lastOp.app_data_map
    /\ lastOp.raw_records[3].app_id \in DOMAIN lastOp.app_data_map
    /\ Len(lastOp.result) = 2

\* C13: an app id that is missing from the rank-delta map, or scored with no
\* map at all, gets no rank contribution to demand and its rank_delta7d is
\* None, not 0; an app whose delta is in the map and equals 0 gets the
\* contribution of 0.5 and rank_delta7d = 0.
C13_AbsentDeltaIsNotZero ==
    lastOp.op = "score_apps" =>
        \A k \in 1..Len(lastOp.result) :
            LET rec == lastOp.result[k]
                data == lastOp.app_data_map[rec.app_id]
                rest == 100 + RatingBonus(data.rating_count)
                            + ReviewBonus(data.recent_reviews)
                present == /\ lastOp.rank_deltas # <<>>
                           /\ rec.app_id \in DOMAIN lastOp.rank_deltas[1]
            IN  /\ ~present =>
                       /\ rec.rank_delta7d = <<>>
                       /\ rec.demand = Clamp(rest)
                /\ (present /\ lastOp.rank_deltas[1][rec.app_id] = 0) =>
                       /\ rec.rank_delta7d = <<0>>
                       /\ rec.demand = Clamp(rest + 50)

\* one batch holds an app without delta and an app with delta 0 that have
\* the same attributes: their demands differ by 0.5
C13_Witness ==
    /\ lastOp.op = "score_apps"
    /\ lastOp.rank_deltas # <<>>
    /\ \E i \in 1..Len(lastOp.result), j \in 1..Len(lastOp.result) :
           /\ lastOp.result[i].rank_delta7d = <<>>
           /\ lastOp.result[j].rank_delta7d = <<0>>
           /\ lastOp.app_data_map[lastOp.result[i].app_id]
                  = lastOp.app_data_map[lastOp.result[j].app_id]
           /\ lastOp.result[j].demand = lastOp.result[i].demand + 50

\* C14: compute_demand_score is clamp(1.0 + R + V + W, 1.0, 5.0): R is 2.0
\* for delta <= -10, 1.5 for -10 < delta <= -5, 1.0 for -5 < delta <= -1,
\* 0.5 for delta = 0, 0 for 1 <= delta <= 5, -0.5 for delta > 5 and 0 without
\* delta; V is 1.0 from 10000 ratings, 0.5 from 1000, 0.25 from 100, else 0;
\* W is 0.5 when at least three recent reviews are given, else 0.
C14_DemandIsClampedSum ==
    lastOp.op = "compute_demand_score" =>
        LET given == lastOp.rank_delta7d # <<>>
            delta == lastOp.rank_delta7d[1]
            R == IF ~given THEN 0
                 ELSE CASE delta <= -10 -> 200
                        [] delta > -10 /\ delta <= -5 -> 150
                        [] delta > -5 /\ delta <= -1 -> 100
                        [] delta = 0 -> 50
                        [] delta >= 1 /\ delta <= 5 -> 0
                        [] delta > 5 -> -50
            V == CASE lastOp.rating_count >= 10000 -> 100
                   [] lastOp.rating_count >= 1000 /\ lastOp.rating_count < 10000 -> 50
                   [] lastOp.rating_count >= 100 /\ lastOp.rating_count < 1000 -> 25
                   [] OTHER -> 0
            supplied == IF lastOp.recent_reviews = <<>> THEN 0
                        ELSE Len(lastOp.recent_reviews[1])
            W == IF supplied >= 3 THEN 50 ELSE 0
            sum == 100 + R + V + W
        IN  lastOp.result = (IF sum < 100 THEN 100 ELSE IF sum > 500 THEN 500 ELSE sum)

\* an unchanged rank with 100 ratings and no reviews scores 1.75
C14_Witness ==
    /\ lastOp.op = "compute_demand_score"
    /\ lastOp.rank_delta7d = <<0>>
    /\ lastOp.rating_count = 100
    /\ lastOp.recent_reviews = <<>>
    /\ lastOp.result = 175

\* the paywall indicators that occur in a description, whatever their case
PaywallTermsIn(description) ==
    {term \in paywall_indicators : Contains(Lower(description), term)}

\* C15: compute_monetization_score returns one of 1.0, 3.0, 4.0, 5.0: 5.0 for
\* a paid app with IAP, 3.0 for a paid app without, 1.0 for a free app
\* without IAP, and for a free app with IAP 4.0 when at least three distinct
\* paywall indicators occur in the description and 3.0 otherwise.
C15_MonetizationCases ==
    lastOp.op = "compute_monetization_score" =>
        /\ lastOp.result \in {100, 300, 400, 500}
        /\ (lastOp.price > 0 /\ lastOp.has_iap) => lastOp.result = 500
        /\ (lastOp.price > 0 /\ ~lastOp.has_iap) => lastOp.result = 300
        /\ (lastOp.price = 0 /\ ~lastOp.has_iap) => lastOp.result = 100
        /\ (lastOp.price = 0 /\ lastOp.has_iap) =>
               lastOp.result =
                   (IF Cardinality(PaywallTermsIn(lastOp.description)) >= 3
                    THEN 400 ELSE 300)

\* a free app with IAP whose description names three indicators scores 4.0
C15_Witness ==
    /\ lastOp.op = "compute_monetization_score"
    /\ lastOp.price = 0
    /\ lastOp.has_iap
    /\ Cardinality(PaywallTermsIn(lastOp.description)) = 3
    /\ lastOp.result = 400

\* C16: compute_total_score(d, m, c, r) is 0.35*d + 0.25*m + 0.25*c +
\* 0.15*(5 - r) rounded to two decimals: the result lies within half a
\* hundredth of that sum, and (4.0, 3.0, 5.0, 2.0) gives 3.85; with d, m and
\* c fixed, no higher moat_risk gives a higher total.
C16_TotalIsRoundedWeightedSum ==
    lastOp.op = "compute_total_score" =>
        LET exact == 35 * lastOp.demand + 25 * lastOp.monetization
                     + 25 * lastOp.low_complexity + 15 * (500 - lastOp.moat_risk)
            off == 100 * lastOp.result - exact
        IN  /\ off >= -50 /\ off <= 50
            /\ (/\ lastOp.demand = 400 /\ lastOp.monetization = 300
                /\ lastOp.low_complexity = 500 /\ lastOp.moat_risk = 200)
                   => lastOp.result = 385
            /\ \A riskier \in {r \in SubScores : r > lastOp.moat_risk} :
                   \A total \in compute_total_score(lastOp.demand, lastOp.monetization,
                                                    lastOp.low_complexity, riskier) :
                       total <= lastOp.result

\* the total of (4.0, 3.0, 5.0, 2.0) was computed
C16_Witness ==
    /\ lastOp.op = "compute_total_score"
    /\ lastOp.demand = 400
    /\ lastOp.monetization = 300
    /\ lastOp.low_complexity = 500
    /\ lastOp.moat_risk = 200
    /\ lastOp.result = 385

\* demand, monetization, low_complexity and moat_risk in [1,5], total in [0,5]
ScoresInRange(rec) ==
    /\ rec.demand >= 100 /\ rec.demand <= 500
    /\ rec.monetization >= 100 /\ rec.monetization <= 500
    /\ rec.low_complexity >= 100 /\ rec.low_complexity <= 500
    /\ rec.moat_risk >= 100 /\ rec.moat_risk <= 500
    /\ rec.total >= 0 /\ rec.total <= 500

\* C17: score_app never fails the score-range validation of ScoredAppRecord,
\* and every record that score_app or score_apps produces has its four
\* sub-scores in [1,5] and its total in [0,5], whatever the attributes, the
\* name and the rank delta (present or absent).
C17_ScoresWithinRange ==
    /\ lastOp.op = "score_app" =>
           /\ lastOp.result # <<>>
           /\ ScoresInRange(lastOp.result[1])
    /\ lastOp.op = "score_apps" =>
           \A k \in 1..Len(lastOp.result) : ScoresInRange(lastOp.result[k])

\* an app that fell by more than five places and has no ratings and no
\* reviews: 1.0 - 0.5 is raised to the demand 1.0
C17_Witness ==
    /\ lastOp.op = "score_app"
    /\ lastOp.rank_delta7d # <<>>
    /\ lastOp.rank_delta7d[1] > 5
    /\ lastOp.app_data.rating_count = 0
    /\ lastOp.app_data.recent_reviews = <<>>
    /\ lastOp.result # <<>>
    /\ lastOp.result[1].demand = 100

\* the terms of a vocabulary that occur in the lowercased name + description
TermsIn(vocabulary, name, description) ==
    {term \in vocabulary : Contains(Lower(name \o <<" ">> \o description), term)}

\* C18: compute_low_complexity_score is decided by how many distinct terms of
\* the two vocabularies occur in the lowercased name and description: with s
\* simple-utility terms it is 5.0 for s >= 3, 4.0 for s = 2, 3.0 for s = 1;
\* only for s = 0 the k complexity terms count: 1.0 for k >= 2, 2.0 for
\* k = 1, 2.5 for k = 0.  A term that occurs several times counts once.
C18_LowComplexityByHitCounts ==
    lastOp.op = "compute_low_complexity_score" =>
        LET s == Cardinality(TermsIn(LOW_COMPLEXITY_KEYWORDS, lastOp.name,
                                     lastOp.description))
            k == Cardinality(TermsIn(complexity_indicators, lastOp.name,
                                     lastOp.description))
        IN  lastOp.result =
                (IF s >= 3 THEN 500 ELSE IF s = 2 THEN 400 ELSE IF s = 1 THEN 300
                 ELSE IF k >= 2 THEN 100 ELSE IF k = 1 THEN 200 ELSE 250)

\* "Timer" with the description "Timer AI": "timer" occurs twice and counts
\* once, and the complexity term "ai" is not looked at
C18_Witness ==
    /\ lastOp.op = "compute_low_complexity_score"
    /\ lastOp.name = <<"T", "i", "m", "e", "r">>
    /\ lastOp.description = <<"T", "i", "m", "e", "r", " ", "A", "I">>
    /\ lastOp.result = 300

\* C19: compute_moat_risk_score is decided by how many distinct terms of the
\* two vocabularies occur in the lowercased name and description: with b
\* big-brand terms it is 5.0 for b >= 2 and 4.0 for b = 1; only for b = 0 it
\* is 3.0 when a trademark indicator occurs and 1.0 otherwise, so a generic
\* text without brand and without trademark indicator scores 1.0.
C19_MoatRiskByHitCounts ==
    lastOp.op = "compute_moat_risk_score" =>
        LET b == Cardinality(TermsIn(HIGH_MOAT_KEYWORDS, lastOp.name,
                                     lastOp.description))
            t == Cardinality(TermsIn(trademark_indicators, lastOp.name,
                                     lastOp.description))
        IN  lastOp.result =
                (IF b >= 2 THEN 500 ELSE IF b = 1 THEN 400
                 ELSE IF t >= 1 THEN 300 ELSE 100)

\* the generic name "Photo" without description scores 1.0
C19_Witness ==
    /\ lastOp.op = "compute_moat_risk_score"
    /\ lastOp.name = <<"P", "h", "o", "t", "o">>
    /\ lastOp.description = <<>>
    /\ lastOp.result = 100

\* ------------------------------------------------ SQLiteCache: cleanup_old_data
\* the retention windows asked for (30 is the default)
DaysToKeepValues == {0, 1, 30}

\* a row stamped at the cutoff is deleted as well
NotAfterCutoff(stamp, cutoff) == stamp <= cutoff

\* WHERE date < ?  and  WHERE cached_at < ?
BeforeCutoff(stamp, cutoff) == stamp < cutoff

\* both cutoffs are taken from the clock at the time of the call
cleanup_old_data(days_to_keep) ==
    LET cutoff_date == Date(now - days_to_keep * TicksPerDay)
        cutoff_time == now - days_to_keep * TicksPerDay
        old_ranks == {x \in app_ranks : BeforeCutoff(x.date, cutoff_date)}
        old_html == {x \in app_html_cache : BeforeCutoff(x.cached_at, cutoff_time)}
    IN  /\ app_ranks' = app_ranks \ old_ranks
        /\ app_html_cache' = app_html_cache \ old_html
        /\ lastOp' = [op |-> "cleanup_old_data", days_to_keep |-> days_to_keep,
                      at |-> now, removed_ranks |-> Cardinality(old_ranks),
                      removed_html |-> Cardinality(old_html)]
        /\ UNCHANGED <<now, nObs, html_written, sinkVars, runVars>>

InitCache ==
    /\ InitIdle
    /\ mode = "none"

\* store_ranks with one observation of either app
CacheStoreRanksStep ==
    \E record \in {r \in RawAppRecord : r.category = "Utilities" /\ r.rank = 5} :
        store_ranks(<<record>>)

\* store_html of either app's page
CacheStoreHtmlStep ==
    \E app_id \in Apps : store_html(app_id, "US", "<html>1</html>")

CleanupStep == \E days_to_keep \in DaysToKeepValues : cleanup_old_data(days_to_keep)

NextCache ==
    \/ CacheStoreRanksStep
    \/ CacheStoreHtmlStep
    \/ CleanupStep
    \/ Tick
    \/ AdvanceDay

SpecCache == InitCache /\ [][NextCache]_vars

\* ----------------------------------------------------------- claims: cleanup
\* C20: cleanup_old_data(days_to_keep), called at any point between stores,
\* deletes from app_ranks every row dated before the date of (now -
\* days_to_keep) and from app_html_cache every row cached before (now -
\* days_to_keep); every row at or after the cutoff stays as it was.
C20_CleanupDeletesExactlyTheOld ==
    [][(lastOp'.op = "cleanup_old_data" /\ lastOp' # lastOp) =>
          LET cutoff == now - lastOp'.days_to_keep * TicksPerDay
          IN  /\ app_ranks' = {x \in app_ranks : x.date >= Date(cutoff)}
              /\ app_html_cache' = {x \in app_html_cache : x.cached_at >= cutoff}]_vars

\* a cleanup removed a row of each table and kept, in each table, a row
\* stamped exactly at the cutoff
C20_Witness ==
    /\ lastOp.op = "cleanup_old_data"
    /\ lastOp.removed_ranks >= 1
    /\ lastOp.removed_html >= 1
    /\ now = lastOp.at
    /\ \E x \in app_ranks :
           x.date = Date(now - lastOp.days_to_keep * TicksPerDay)
    /\ \E x \in app_html_cache :
           x.cached_at = now - lastOp.days_to_keep * TicksPerDay

\* =================================================== ai_recommender.py
\* ------------------------------------------------------------- bounds
MaxRecApps == 2

\* _query_hugging_face(prompt, max_retries=3)
max_retries == 3

\* what requests.post / raise_for_status / the payload can be on one attempt:
\* a requests.exceptions.RequestException (a timeout, an HTTP error status),
\* a JSON body without "choices", a body whose content is not a string, or
\* a body with a text content
RequestExceptions == {"Timeout", "HTTPError"}

\* a response text: its lines, each a tag (the prefix before ':', "other"
\* when the line starts with none of the six) and the pieces its remainder
\* has between '|' characters, each already stripped
ResponseLine(tag, pieces) == [tag |-> tag, pieces |-> pieces]

ResponseTexts ==
    { <<>>,
      <<ResponseLine("other", <<"Sure, here is my analysis">>)>>,
      <<ResponseLine("IMPROVEMENT", <<"Add widgets">>),
        ResponseLine("FEATURES", <<"f1", "", "f2", "f3", "f4">>),
        ResponseLine("RISKS", <<"r1", "r2", "r3">>)>>,
      <<ResponseLine("BUILD_TIME", <<"1-2 nights">>),
        ResponseLine("MONETIZATION", <<"m1">>),
        ResponseLine("MARKET_GAP", <<"no offline mode">>),
        ResponseLine("BUILD_TIME", <<"3 hours">>)>> }

ApiAnswer(kind, content) == [kind |-> kind, content |-> content]

ApiAnswers ==
    {ApiAnswer(k, <<>>) : k \in RequestExceptions \cup {"no_choices", "content_not_text"}}
    \cup {ApiAnswer("content", t) : t \in ResponseTexts}

\* the answers of the attempts of one call, in order
AnswerLists == [1..max_retries -> ApiAnswers]

RecCategories == {"Utilities", "Productivity", "Games"}

\* app_data: the dict handed to the recommender
RecAppData == [app_id : Apps, category : RecCategories]

\* time.sleep(2 ** attempt)
Backoff(attempt) == 2 ^ attempt

\* the loop of _query_hugging_face from attempt (0-based) on, slept being
\* the sleeps made so far
RECURSIVE QueryFrom(_, _, _)
QueryFrom(answers, attempt, slept) ==
    IF attempt >= max_retries
    THEN [raised |-> TRUE, error |-> "Exception", content |-> <<>>,
          attempts |-> attempt, slept |-> slept]
    ELSE LET answer == answers[attempt + 1]
         IN  IF answer.kind \in RequestExceptions
             THEN IF attempt < max_retries - 1
                  THEN QueryFrom(answers, attempt + 1,
                                 Append(slept, Backoff(attempt)))
                  ELSE [raised |-> TRUE, error |-> answer.kind,
                        content |-> <<>>, attempts |-> attempt + 1,
                        slept |-> slept]
             ELSE IF answer.kind = "no_choices"
             THEN [raised |-> TRUE, error |-> "ValueError", content |-> <<>>,
                   attempts |-> attempt + 1, slept |-> slept]
             ELSE IF answer.kind = "content_not_text"
             THEN [raised |-> TRUE, error |-> "AttributeError",
                   content |-> <<>>, attempts |-> attempt + 1,
                   slept |-> slept]
             ELSE [raised |-> FALSE, error |-> "", content |-> answer.content,
                   attempts |-> attempt + 1, slept |-> slept]

_query_hugging_face(answers) == QueryFrom(answers, 0, <<>>)

\* [f.strip() for f in text.split('|') if f.strip()]
RECURSIVE NonBlank(_)
NonBlank(pieces) ==
    IF pieces = <<>> THEN <<>>
    ELSE IF Head(pieces) = "" THEN NonBlank(Tail(pieces))
    ELSE <<Head(pieces)>> \o NonBlank(Tail(pieces))

\* s[:n]
Truncate(s, n) == IF Len(s) <= n THEN s ELSE SubSeq(s, 1, n)

\* the default values _parse_ai_response starts from
ParseDefaults ==
    [improvement_summary |-> <<"Optimize user experience and add premium features">>,
     key_features |-> <<"Enhanced UI/UX", "Offline functionality", "Premium features">>,
     monetization_tips |-> <<"Freemium model with premium features",
                             "In-app purchases for advanced tools">>,
     build_estimate |-> <<"3-4 hours">>,
     market_gap |-> <<"Existing app lacks polish and advanced features">>,
     risk_factors |-> <<"Market competition", "User acquisition challenges">>]

\* one turn of the loop over the lines
ParseLine(fields, line) ==
    IF line.tag = "IMPROVEMENT"
    THEN [fields EXCEPT !.improvement_summary = line.pieces]
    ELSE IF line.tag = "FEATURES"
    THEN [fields EXCEPT !.key_features = NonBlank(line.pieces)]
    ELSE IF line.tag = "MONETIZATION"
    THEN [fields EXCEPT !.monetization_tips = NonBlank(line.pieces)]
    ELSE IF line.tag = "BUILD_TIME"
    THEN [fields EXCEPT !.build_estimate = line.pieces]
    ELSE IF line.tag = "MARKET_GAP"
    THEN [fields EXCEPT !.market_gap = line.pieces]
    ELSE IF line.tag = "RISKS"
    THEN [fields EXCEPT !.risk_factors = NonBlank(line.pieces)]
    ELSE fields

RECURSIVE ParseLines(_, _)
ParseLines(fields, lines) ==
    IF lines = <<>> THEN fields
    ELSE ParseLines(ParseLine(fields, Head(lines)), Tail(lines))

AppRecommendation(app_data, fields) ==
    [app_id |-> app_data.app_id,
     category |-> app_data.category,
     improvement_summary |-> fields.improvement_summary,
     key_features |-> fields.key_features,
     monetization_tips |-> fields.monetization_tips,
     build_estimate |-> fields.build_estimate,
     market_gap |-> fields.market_gap,
     risk_factors |-> fields.risk_factors]

_parse_ai_response(app_data, ai_response) ==
    LET fields == ParseLines(ParseDefaults, ai_response)
    IN  AppRecommendation(app_data,
            [fields EXCEPT !.key_features = Truncate(@, 3),
                           !.monetization_tips = Truncate(@, 2),
                           !.risk_factors = Truncate(@, 2)])

\* the category-specific table of _create_fallback_recommendation
fallback_recommendations ==
    [c \in {"Utilities", "Productivity", "Photo & Video"} |->
        IF c = "Utilities"
        THEN [improvement_summary |-> <<"Add modern UI design and premium utility features">>,
              key_features |-> <<"Dark mode support", "Widget functionality", "Cloud sync">>,
              monetization_tips |-> <<"Pro version with advanced features",
                                      "Remove ads subscription">>,
              build_estimate |-> <<"2-3 hours">>,
              market_gap |-> <<"Most utility apps lack modern design and user-friendly interfaces">>,
              risk_factors |-> <<"Saturated market", "Low user engagement">>]
        ELSE IF c = "Productivity"
        THEN [improvement_summary |-> <<"Integrate AI assistance and cross-platform sync">>,
              key_features |-> <<"AI-powered suggestions", "Team collaboration",
                                 "Smart notifications">>,
              monetization_tips |-> <<"Subscription for premium AI features", "Team plans">>,
              build_estimate |-> <<"4-6 hours">>,
              market_gap |-> <<"Many productivity apps lack intelligent automation features">>,
              risk_factors |-> <<"Complex feature set", "High user expectations">>]
        ELSE [improvement_summary |-> <<"Add unique filters and AI-powered editing tools">>,
              key_features |-> <<"Custom AI filters", "One-tap enhancements", "Social sharing">>,
              monetization_tips |-> <<"Premium filter packs", "Watermark removal">>,
              build_estimate |-> <<"3-4 hours">>,
              market_gap |-> <<"Generic editing apps lack distinctive creative tools">>,
              risk_factors |-> <<"Technical complexity", "Content creation competition">>]]

_create_fallback_recommendation(app_data) ==
    LET fallback ==
            IF app_data.category \in DOMAIN fallback_recommendations
            THEN fallback_recommendations[app_data.category]
            ELSE fallback_recommendations["Utilities"]
    IN  AppRecommendation(app_data, fallback)

\* what a call gives back: a value, or an exception leaving the function
Returned(value) == [raised |-> FALSE, value |-> <<value>>]
Raised == [raised |-> TRUE, value |-> <<>>]

\* generate_recommendation without its except clause
GenerateRecommendationPropagating(app_data, answers) ==
    LET ai == _query_hugging_face(answers)
    IN  IF ai.raised THEN Raised
        ELSE Returned(_parse_ai_response(app_data, ai.content))

generate_recommendation(app_data, answers) ==
    LET ai == _query_hugging_face(answers)
    IN  IF ai.raised
        THEN Returned(_create_fallback_recommendation(app_data))
        ELSE Returned(_parse_ai_response(app_data, ai.content))

\* generate_batch_recommendations: answers_of[i] are the answers the calls
\* made for the i-th app get
RECURSIVE BatchFrom(_, _, _)
BatchFrom(apps_data, answers_of, i) ==
    IF i > Len(apps_data) THEN <<>>
    ELSE LET outcome == generate_recommendation(apps_data[i], answers_of[i])
         IN  IF outcome.raised
             THEN BatchFrom(apps_data, answers_of, i + 1)
             ELSE outcome.value \o BatchFrom(apps_data, answers_of, i + 1)

generate_batch_recommendations(apps_data, answers_of) ==
    BatchFrom(apps_data, answers_of, 1)

\* ------------------------------------------- the recommender's operations
\* the answers the batch's calls get: every attempt failing, a malformed
\* body after one failure, a structured text, an unstructured text
BatchAnswerLists ==
    { [k \in 1..max_retries |-> ApiAnswer("Timeout", <<>>)],
      [k \in 1..max_retries |->
          IF k = 1 THEN ApiAnswer("HTTPError", <<>>) ELSE ApiAnswer("no_choices", <<>>)],
      [k \in 1..max_retries |->
          ApiAnswer("content", <<ResponseLine("IMPROVEMENT", <<"Add widgets">>)>>)],
      [k \in 1..max_retries |-> ApiAnswer("content", <<>>)] }

BatchAppsData == {<<>>} \cup UNION {[1..n -> RecAppData] : n \in 1..MaxRecApps}

\* the recommender keeps no state between calls
RecommenderFrame ==
    /\ lastOp = NoOp
    /\ UNCHANGED <<now, rankVars, htmlVars, sinkVars, runVars>>

QueryHuggingFaceStep ==
    /\ RecommenderFrame
    /\ \E answers \in AnswerLists :
           lastOp' = [op |-> "_query_hugging_face", answers |-> answers,
                      result |-> _query_hugging_face(answers)]

GenerateRecommendationStep ==
    /\ RecommenderFrame
    /\ \E app_data \in RecAppData, answers \in AnswerLists :
           lastOp' = [op |-> "generate_recommendation", app_data |-> app_data,
                      answers |-> answers,
                      result |-> generate_recommendation(app_data, answers)]

GenerateBatchStep ==
    /\ RecommenderFrame
    /\ \E apps_data \in BatchAppsData :
         \E answers_of \in [1..Len(apps_data) -> BatchAnswerLists] :
           lastOp' = [op |-> "generate_batch_recommendations",
                      apps_data |-> apps_data, answers_of |-> answers_of,
                      result |-> generate_batch_recommendations(apps_data, answers_of)]

InitRecommender ==
    /\ InitIdle
    /\ mode = "none"

NextRecommender ==
    \/ QueryHuggingFaceStep
    \/ GenerateRecommendationStep
    \/ GenerateBatchStep

SpecRecommender == InitRecommender /\ [][NextRecommender]_vars

\* ------------------------------------------------------ claims: recommender
\* the live call fails: every attempt ends in a request exception, or the
\* first attempt that does not carries a body without a text content
LiveCallFails(answers) ==
    \/ \A k \in 1..max_retries : answers[k].kind \in RequestExceptions
    \/ \E k \in 1..max_retries :
          /\ answers[k].kind \in {"no_choices", "content_not_text"}
          /\ \A j \in 1..(k - 1) : answers[j].kind \in RequestExceptions

\* C21: generate_recommendation never raises: when the live call fails after
\* its retries or answers with a malformed body it returns the fixed
\* fallback of the app's category, and when the text has none of the
\* expected lines it returns the defaults; generate_batch_recommendations
\* returns one recommendation per input app, in order.
C21_RecommendationNeverRaises ==
    /\ lastOp.op = "generate_recommendation" =>
          /\ ~lastOp.result.raised
          /\ Len(lastOp.result.value) = 1
          /\ lastOp.result.value[1].app_id = lastOp.app_data.app_id
          /\ LiveCallFails(lastOp.answers) =>
                lastOp.result.value[1] =
                    _create_fallback_recommendation(lastOp.app_data)
          /\ (/\ lastOp.answers[1].kind = "content"
              /\ \A k \in 1..Len(lastOp.answers[1].content) :
                     lastOp.answers[1].content[k].tag = "other") =>
                lastOp.result.value[1] =
                    AppRecommendation(lastOp.app_data, ParseDefaults)
    /\ lastOp.op = "generate_batch_recommendations" =>
          /\ Len(lastOp.result) = Len(lastOp.apps_data)
          /\ \A i \in 1..Len(lastOp.apps_data) :
                lastOp.result[i].app_id = lastOp.apps_data[i].app_id

\* a batch of two apps: the call for the first failed on every attempt, the
\* second got a malformed body, and both have a recommendation
C21_Witness ==
    /\ lastOp.op = "generate_batch_recommendations"
    /\ Len(lastOp.apps_data) = 2
    /\ \A k \in 1..max_retries : lastOp.answers_of[1][k].kind = "Timeout"
    /\ lastOp.answers_of[2][2].kind = "no_choices"
    /\ Len(lastOp.result) = 2

\* ============================================ rss.py / scrape.py: fetching
\* what session.get gives on one attempt: a requests exception raised by
\* the transport, or a response with a status (and, for a chart, a feed
\* with or without entries)
TransportErrors == {"Timeout", "ConnectionError"}
HttpAnswers == TransportErrors \cup {"429", "403", "500", "503", "200_no_entries", "200"}
PageAnswers == TransportErrors \cup {"429", "500", "404", "200"}

\* stop=stop_after_attempt(5) of fetch_rss_data, stop_after_attempt(2) of
\* fetch_app_page
rss_stop_after_attempt == 5
page_stop_after_attempt == 2

StatusOf(answer) ==
    IF answer = "429" THEN 429
    ELSE IF answer = "403" THEN 403
    ELSE IF answer = "404" THEN 404
    ELSE IF answer = "500" THEN 500
    ELSE IF answer = "503" THEN 503
    ELSE 200

\* the outcome of one attempt: a value, or an exception; has_response says
\* whether the exception object has an attribute response (every
\* requests.RequestException has one) and response is its value, <<>> for
\* None and <<status>> for a response
Succeeded == [failed |-> FALSE, type |-> "", has_response |-> FALSE, response |-> <<>>]
Failed(type, has_response, response) ==
    [failed |-> TRUE, type |-> type, has_response |-> has_response,
     response |-> response]

\* the body of fetch_rss_data on one attempt
FetchRssAttempt(answer) ==
    IF answer \in TransportErrors THEN Failed(answer, TRUE, <<>>)
    ELSE IF StatusOf(answer) = 429 THEN Failed("HTTPError", TRUE, <<429>>)
    ELSE IF StatusOf(answer) = 403 THEN Failed("HTTPError", TRUE, <<403>>)
    ELSE IF StatusOf(answer) >= 400 THEN Failed("HTTPError", TRUE, <<StatusOf(answer)>>)
    ELSE IF answer = "200_no_entries" THEN Failed("ValueError", FALSE, <<>>)
    ELSE Succeeded

\* the body of fetch_app_page on one attempt
FetchPageAttempt(answer) ==
    IF answer \in TransportErrors THEN Failed(answer, TRUE, <<>>)
    ELSE IF StatusOf(answer) >= 400 THEN Failed("HTTPError", TRUE, <<StatusOf(answer)>>)
    ELSE Succeeded

\* the retry= predicate of fetch_rss_data: "yes", "no", or the exception the
\* predicate itself raises when it reads status_code of a response None
RssRetryPredicate(outcome) ==
    IF ~outcome.failed THEN "no"
    ELSE IF ~outcome.has_response THEN "no"
    ELSE IF outcome.response = <<>> THEN "AttributeError"
    ELSE IF outcome.response[1] \in {429, 503, 502, 504} THEN "yes"
    ELSE "no"

\* the default predicate of @retry, used by fetch_app_page: any exception
PageRetryPredicate(outcome) == IF outcome.failed THEN "yes" ELSE "no"

\* the loop of tenacity's Retrying from attempt (1-based) on: the predicate
\* is asked first, then the stop condition
RECURSIVE Retrying(_, _, _, _)
Retrying(outcomes, decisions, stop, attempt) ==
    IF decisions[attempt] = "AttributeError"
    THEN [raised |-> TRUE, error |-> "AttributeError", attempts |-> attempt]
    ELSE IF decisions[attempt] = "no"
    THEN [raised |-> outcomes[attempt].failed,
          error |-> outcomes[attempt].type, attempts |-> attempt]
    ELSE IF attempt >= stop
    THEN [raised |-> TRUE, error |-> "RetryError", attempts |-> attempt]
    ELSE Retrying(outcomes, decisions, stop, attempt + 1)

fetch_rss_data(answers) ==
    LET outcomes == [k \in 1..rss_stop_after_attempt |-> FetchRssAttempt(answers[k])]
        decisions == [k \in 1..rss_stop_after_attempt |-> RssRetryPredicate(outcomes[k])]
    IN  Retrying(outcomes, decisions, rss_stop_after_attempt, 1)

fetch_app_page(answers) ==
    LET outcomes == [k \in 1..page_stop_after_attempt |-> FetchPageAttempt(answers[k])]
        decisions == [k \in 1..page_stop_after_attempt |-> PageRetryPredicate(outcomes[k])]
    IN  Retrying(outcomes, decisions, page_stop_after_attempt, 1)

\* the fetchers keep no state between calls
FetchFrame ==
    /\ lastOp = NoOp
    /\ UNCHANGED <<now, rankVars, htmlVars, sinkVars, runVars>>

FetchRssDataStep ==
    /\ FetchFrame
    /\ \E answers \in [1..rss_stop_after_attempt -> HttpAnswers] :
           lastOp' = [op |-> "fetch_rss_data", answers |-> answers,
                      result |-> fetch_rss_data(answers)]

FetchAppPageStep ==
    /\ FetchFrame
    /\ \E answers \in [1..page_stop_after_attempt -> PageAnswers] :
           lastOp' = [op |-> "fetch_app_page", answers |-> answers,
                      result |-> fetch_app_page(answers)]

InitFetch ==
    /\ InitIdle
    /\ mode = "none"

NextFetch ==
    \/ FetchRssDataStep
    \/ FetchAppPageStep
    \/ QueryHuggingFaceStep

SpecFetch == InitFetch /\ [][NextFetch]_vars

\* ---------------------------------------------------------- claims: fetching
\* a transient failure: a timeout or lost connection, a rate-limit response,
\* a 5xx response
TransientAnswers == TransportErrors \cup {"429", "500", "503"}

\* within the cap, every attempt that ended in a transient failure was
\* followed by another attempt, and no call made more attempts than its cap
RetriedUpTo(cap, transient) ==
    /\ lastOp.result.attempts <= cap
    /\ \A k \in 1..lastOp.result.attempts :
          (k < cap /\ transient[k]) => lastOp.result.attempts > k

\* C22: every external call ends within its attempt cap (2 for a page
\* fetch, 5 for a chart fetch, 3 for the enrichment call), and a transient
\* failure (timeout, rate-limit response, 5xx) before the cap is retried.
C22_TransientFailuresRetriedUpToCap ==
    /\ lastOp.op = "fetch_app_page" =>
          RetriedUpTo(page_stop_after_attempt,
                      [k \in 1..page_stop_after_attempt |->
                          lastOp.answers[k] \in TransientAnswers])
    /\ lastOp.op = "fetch_rss_data" =>
          RetriedUpTo(rss_stop_after_attempt,
                      [k \in 1..rss_stop_after_attempt |->
                          lastOp.answers[k] \in TransientAnswers])
    /\ lastOp.op = "_query_hugging_face" =>
          RetriedUpTo(max_retries,
                      [k \in 1..max_retries |->
                          lastOp.answers[k].kind \in RequestExceptions])

\* ======================================= enrichment of one collected entry
\* the three loops that enrich collected entries: daily_automation.py,
\* production_collect.py and the score command of cli.py
Orchestrators == {"daily", "production", "cli"}

\* what one call of fetch_app_page gives: <<>> when it raises, <<html>> else
FetchOutcomes == {<<>>, <<"">>, <<"<html>2</html>">>}

\* the calls of fetch_app_page an entry may need, in order
FetchOutcomeLists == [1..2 -> FetchOutcomes]

\* if cached_html:
Truthy(cached_html) == cached_html # <<>> /\ cached_html[1] # ""

\* the body of the loop for one entry: what it asks of the cache, how many
\* times it calls fetch_app_page, what it writes to the cache, and whether
\* the entry got attributes
EnrichOutcome(orchestrator, cached_html, fetched) ==
    IF Truthy(cached_html)
    THEN [fetch_calls |-> 0, stored |-> <<>>, ok |-> TRUE]
    ELSE IF orchestrator \in {"daily", "production"}
    THEN IF fetched[1] = <<>>
         THEN [fetch_calls |-> 1, stored |-> <<>>, ok |-> FALSE]
         ELSE [fetch_calls |-> 1, stored |-> fetched[1], ok |-> TRUE]
    \* cli.py: scrape_app fetches the page, then fetch_app_page is called
    \* again for the content to cache
    ELSE IF fetched[1] = <<>>
    THEN [fetch_calls |-> 1, stored |-> <<>>, ok |-> FALSE]
    ELSE IF fetched[2] = <<>>
    THEN [fetch_calls |-> 2, stored |-> <<>>, ok |-> FALSE]
    ELSE [fetch_calls |-> 2, stored |-> fetched[2], ok |-> TRUE]

EnrichEntry(orchestrator, app_id, country, max_age_hours, fetched) ==
    LET cached_html == GetHtmlResult(app_html_cache, now, app_id, country,
                                     max_age_hours)
        outcome == EnrichOutcome(orchestrator, cached_html, fetched)
    IN  /\ IF outcome.stored = <<>>
           THEN UNCHANGED htmlVars
           ELSE /\ app_html_cache' = InsertOrReplaceHtml(app_html_cache,
                       [app_id |-> app_id, country |-> country,
                        html |-> outcome.stored[1], cached_at |-> now])
                /\ html_written' =
                       [html_written EXCEPT ![<<app_id, country>>] = outcome.stored]
        /\ lastOp' = [op |-> "enrich_entry", orchestrator |-> orchestrator,
                      app_id |-> app_id, country |-> country, at |-> now,
                      cached_html |-> cached_html, fetched |-> fetched,
                      fetch_calls |-> outcome.fetch_calls,
                      stored |-> outcome.stored, ok |-> outcome.ok]
        /\ UNCHANGED <<now, rankVars, sinkVars, runVars>>

InitEnrich ==
    /\ InitIdle
    /\ mode = "none"

EnrichEntryStep ==
    \E orchestrator \in Orchestrators, app_id \in Apps, country \in Countries,
       fetched \in FetchOutcomeLists :
        EnrichEntry(orchestrator, app_id, country, MaxAgeHours, fetched)

NextEnrich ==
    \/ EnrichEntryStep
    \/ Tick

SpecEnrich == InitEnrich /\ [][NextEnrich]_vars

\* ------------------------------------------------------- claims: enrichment
\* C23: for every entry the cache is consulted first: on a hit (a row for
\* the key within the maximum age) fetch_app_page is not called, and on a
\* miss it is called exactly once and, when it returns, its content is the
\* row of (app_id, country) in the cache.
C23_CacheFirstFetchOnceOnMiss ==
    [][(lastOp'.op = "enrich_entry" /\ lastOp' # lastOp) =>
          LET hit == GetHtmlResult(app_html_cache, now, lastOp'.app_id,
                                   lastOp'.country, MaxAgeHours) # <<>>
          IN  /\ hit => (lastOp'.fetch_calls = 0 /\ UNCHANGED app_html_cache)
              /\ ~hit =>
                    /\ lastOp'.fetch_calls = 1
                    /\ lastOp'.fetched[1] # <<>> =>
                          \E x \in app_html_cache' :
                              /\ x.app_id = lastOp'.app_id
                              /\ x.country = lastOp'.country
                              /\ x.html = lastOp'.fetched[1][1]
                              /\ x.cached_at = now]_vars

\* ================================================ rss.py: parse_rss_entries
\* ------------------------------------------------------------- bounds
MaxFeed == 3

Digits == {"0", "1", "2", "3", "4", "5", "6", "7", "8", "9"}

\* the pattern prefix matches url at position i and a digit follows it
PrefixThenDigitAt(url, prefix, i) ==
    /\ i + Len(prefix) <= Len(url)
    /\ \A k \in 1..Len(prefix) : url[i + k - 1] = prefix[k]
    /\ url[i + Len(prefix)] \in Digits

\* (\d+) from position j on: the longest run of digits
RECURSIVE DigitsFrom(_, _)
DigitsFrom(url, j) ==
    IF j > Len(url) \/ url[j] \notin Digits THEN <<>>
    ELSE <<url[j]>> \o DigitsFrom(url, j + 1)

\* re.search(prefix + r'(\d+)', url): <<>> without a match, <<group 1>> of
\* the leftmost match
ReSearch(url, prefix) ==
    LET starts == {i \in 1..Len(url) : PrefixThenDigitAt(url, prefix, i)}
    IN  IF starts = {} THEN <<>>
        ELSE LET i == CHOOSE s \in starts : \A t \in starts : s <= t
             IN  <<DigitsFrom(url, i + Len(prefix))>>

\* the patterns of _extract_app_id, in the order they are tried
patterns ==
    << <<"/", "i", "d">>,
       <<"a", "p", "p", "-", "i", "d", "=">>,
       <<"i", "d">> >>

\* Optional[str]: <<>> is None
_extract_app_id(app_url) ==
    IF app_url = <<>> THEN <<>>
    ELSE IF ReSearch(app_url, patterns[1]) # <<>> THEN ReSearch(app_url, patterns[1])
    ELSE IF ReSearch(app_url, patterns[2]) # <<>> THEN ReSearch(app_url, patterns[2])
    ELSE ReSearch(app_url, patterns[3])

\* entry.get("link", ""): a standard link, an iTunes-style link, a loose
\* one, one with the letters but no number, and a missing link
Links ==
    { <<"/", "a", "/", "i", "d", "1", "2">>,
      <<"?", "a", "p", "p", "-", "i", "d", "=", "7">>,
      <<"x", "i", "d", "3", "?">>,
      <<"/", "n", "o", "-", "i", "d">>,
      <<>> }

\* feed.entries
Feeds == UNION {[1..n -> Links] : n \in 0..MaxFeed}

MaxResultsValues == {1, 2, 25}

\* rank: int = Field(..., ge=1, le=25)
RawAppRecordValid(rank) == rank >= 1 /\ rank <= 25

\* the loop of parse_rss_entries from the entry at position rank on, ranks
\* counting the positions of entries[:max_results] from 1
RECURSIVE ParseFrom(_, _)
ParseFrom(entries, rank) ==
    IF rank > Len(entries) THEN <<>>
    ELSE LET app_id == _extract_app_id(entries[rank])
         IN  IF app_id = <<>> \/ ~RawAppRecordValid(rank)
             THEN ParseFrom(entries, rank + 1)
             ELSE <<[rank |-> rank, app_id |-> app_id[1]]>>
                      \o ParseFrom(entries, rank + 1)

\* a loop that numbers the records it keeps
RECURSIVE ParseCounting(_, _, _)
ParseCounting(entries, at, kept) ==
    IF at > Len(entries) THEN <<>>
    ELSE LET app_id == _extract_app_id(entries[at])
         IN  IF app_id = <<>> \/ ~RawAppRecordValid(kept + 1)
             THEN ParseCounting(entries, at + 1, kept)
             ELSE <<[rank |-> kept + 1, app_id |-> app_id[1]]>>
                      \o ParseCounting(entries, at + 1, kept + 1)

ParseRenumbering(entries, max_results) ==
    ParseCounting(Truncate(entries, max_results), 1, 0)

parse_rss_entries(entries, max_results) ==
    ParseFrom(Truncate(entries, max_results), 1)

RssFrame ==
    /\ lastOp = NoOp
    /\ UNCHANGED <<now, rankVars, htmlVars, sinkVars, runVars>>

ExtractAppIdStep ==
    /\ RssFrame
    /\ \E app_url \in Links :
           lastOp' = [op |-> "_extract_app_id", app_url |-> app_url,
                      result |-> _extract_app_id(app_url)]

ParseRssEntriesStep ==
    /\ RssFrame
    /\ \E entries \in Feeds, max_results \in MaxResultsValues :
           lastOp' = [op |-> "parse_rss_entries", entries |-> entries,
                      max_results |-> max_results,
                      result |-> parse_rss_entries(entries, max_results)]

InitRss ==
    /\ InitIdle
    /\ mode = "none"

NextRss ==
    \/ ExtractAppIdStep
    \/ ParseRssEntriesStep

SpecRss == InitRss /\ [][NextRss]_vars

\* ------------------------------------------------------------- claims: rss
\* the positions of the feed, among the first max_results, whose link has
\* an app id
WithAppId(entries, max_results) ==
    {k \in 1..Len(entries) :
        k <= max_results /\ _extract_app_id(entries[k]) # <<>>}

default_days_back == 7

\* every map get_rank_deltas may return on table at clock
PossibleRankDeltas(table, clock, app_ids, days_back) ==
    LET cutoff_date == Date(clock - days_back * TicksPerDay)
        asked == Elems(app_ids)
        results(a) == OrderByDateDescLimit2(WhereAppSince(table, a, cutoff_date))
        all == UNION {results(a) : a \in asked}
    IN  {[a \in {b \in asked : HasTwoRows(fetched[b])} |-> RankDelta(fetched[a])] :
            fetched \in {f \in [asked -> all] : \A a \in asked : f[a] \in results(a)}}

\* list(app_data_map.keys()), every collected entry having attributes
AppIdsOf(records) == [k \in 1..Len(records) |-> records[k].app_id]

\* the deltas of a run that wrote its observations before reading
RunRankDeltasAfterStore(table, clock, records) ==
    PossibleRankDeltas(StoreRows(table, records, Date(clock)), clock,
                       AppIdsOf(records), default_days_back)

\* rank_deltas = store.cache.get_rank_deltas(list(app_data_map.keys())),
\* read from the table as the run found it
RunRankDeltas(table, clock, records) ==
    PossibleRankDeltas(table, clock, AppIdsOf(records), default_days_back)

\* the end of a run: the deltas are read, the records scored with them, and
\* store_and_publish then writes the run's observations with store_ranks
ScoreAndStore(records) ==
    /\ nObs + Len(records) <= MaxObs
    /\ \E rank_deltas \in RunRankDeltas(app_ranks, now, records) :
           lastOp' = [op |-> "score_and_store", records |-> records,
                      rank_deltas |-> rank_deltas, at |-> now]
    /\ app_ranks' = StoreRows(app_ranks, records, Date(now))
    /\ nObs' = nObs + Len(records)
    /\ UNCHANGED <<now, htmlVars, sinkVars, runVars>>

InitDeltas ==
    /\ InitIdle
    /\ mode = "none"

ScoreAndStoreStep == \E records \in RecordLists : ScoreAndStore(records)

NextDeltas ==
    \/ ScoreAndStoreStep
    \/ AdvanceDay

SpecDeltas == InitDeltas /\ [][NextDeltas]_vars

\* ------------------------------------------------- claims: deltas of a run
\* C25: the rank delta a run attaches to an app is the difference of the
\* ranks of two observations that were in the rank history before the run
\* wrote its own; an app with fewer than two earlier observations gets no
\* delta, whatever rank the run collected for it.
C25_DeltaFromEarlierRunsOnly ==
    [][(lastOp'.op = "score_and_store" /\ lastOp' # lastOp) =>
          \A i \in 1..Len(lastOp'.records) :
              LET a == lastOp'.records[i].app_id
                  earlier == {x \in app_ranks : x.app_id = a}
              IN  IF a \in DOMAIN lastOp'.rank_deltas
                  THEN \E x, y \in earlier :
                          /\ x # y
                          /\ lastOp'.rank_deltas[a] = x.rank - y.rank
                  ELSE Cardinality(earlier) < 2]_vars

\* a run on the third day found two earlier observations of an app, of
\* ranks 10 and then 5, collected rank 10 for it and attached the delta -5
C25_Witness ==
    /\ lastOp.op = "score_and_store"
    /\ Date(now) = 2
    /\ lastOp.at = now
    /\ lastOp.records = <<[app_id |-> "a1", category |-> "Utilities",
                           country |-> "US", chart |-> "free", rank |-> 10]>>
    /\ "a1" \in DOMAIN lastOp.rank_deltas
    /\ lastOp.rank_deltas["a1"] = -5
    /\ Cardinality(app_ranks) = 3

\* --------------------------------------------- claims: the rows subtracted
\* C26: for every app id in the map get_rank_deltas returns, the delta is
\* the rank of one observation minus the rank of an older one, the two
\* recorded on different dates in the same (category, country, chart).
C26_DeltaWithinOneChartAcrossDates ==
    lastOp.op = "get_rank_deltas" =>
        \A a \in DOMAIN lastOp.deltas :
            \E x, y \in WhereAppSince(app_ranks, a,
                                      Date(now - lastOp.days_back * TicksPerDay)) :
                /\ x.date > y.date
                /\ x.category = y.category
                /\ x.country = y.country
                /\ x.chart = y.chart
                /\ lastOp.deltas[a] = x.rank - y.rank

\* ------------------------------------------- claims: retention and readers
\* the maximum ages a reader asks for, in hours
MaxAgeValues == {0, MaxAgeHours, 24}

\* C27: a cleanup that keeps at least as many days as a reader looks back
\* changes no answer of that reader at that time: get_rank_deltas(app_ids,
\* days_back) may return the same maps before and after
\* cleanup_old_data(days_to_keep) when days_to_keep >= days_back, and
\* get_html(app_id, country, max_age_hours) returns the same when
\* days_to_keep * 24 >= max_age_hours.
C27_CleanupKeepsWhatReadersSee ==
    [][(lastOp'.op = "cleanup_old_data" /\ lastOp' # lastOp) =>
          /\ \A days_back \in DaysBackValues, app_ids \in AppIdLists :
                lastOp'.days_to_keep >= days_back =>
                    PossibleRankDeltas(app_ranks', now, app_ids, days_back)
                        = PossibleRankDeltas(app_ranks, now, app_ids, days_back)
          /\ \A max_age_hours \in MaxAgeValues, app_id \in Apps, country \in Countries :
                lastOp'.days_to_keep * 24 >= max_age_hours =>
                    GetHtmlResult(app_html_cache', now, app_id, country, max_age_hours)
                        = GetHtmlResult(app_html_cache, now, app_id, country,
                                        max_age_hours)]_vars

\* a cleanup keeping one day removed a rank row and a content row, and a
\* reader looking back one day still gets a delta and a reader accepting a
\* day-old page still gets one
C27_Witness ==
    /\ lastOp.op = "cleanup_old_data"
    /\ lastOp.days_to_keep = 1
    /\ lastOp.at = now
    /\ lastOp.removed_ranks >= 1
    /\ lastOp.removed_html >= 1
    /\ \E deltas \in PossibleRankDeltas(app_ranks, now, <<"a1">>, 1) :
           "a1" \in DOMAIN deltas
    /\ \E app_id \in Apps : GetHtmlResult(app_html_cache, now, app_id, "US", 24) # <<>>

\* ------------------------------------------- claims: the steps of a publish
\* C28: publish_results deletes first and then inserts the rows, in input
\* order, in chunks of at most batch_size; when the insert of a chunk fails
\* it returns False, no later chunk is tried and the chunks inserted before
\* stay in the sink; with an empty list it returns True and asks nothing of
\* the sink.
C28_DeleteThenChunksUntilFirstFailure ==
    [][(lastOp'.op = "publish_results" /\ lastOp' # lastOp) =>
          LET records == lastOp'.records
              chunks == (Len(records) + batch_size - 1) \div batch_size
              kept == SelectSeq(scout_results,
                                LAMBDA row : row.generated_at # now)
              inserted == Len(scout_results') - Len(kept)
          IN  IF records = <<>>
              THEN /\ lastOp'.ok
                   /\ lastOp'.deletes = 0 /\ lastOp'.inserts = 0
                   /\ scout_results' = scout_results
              ELSE /\ lastOp'.deletes = 1
                   /\ lastOp'.inserts <= chunks
                   /\ lastOp'.inserts = 0 =>
                         (~lastOp'.ok /\ scout_results' = scout_results)
                   /\ lastOp'.inserts >= 1 =>
                         /\ SubSeq(scout_results', 1, Len(kept)) = kept
                         /\ \A k \in 1..inserted :
                               scout_results'[Len(kept) + k] =
                                   [generated_at |-> now, rec |-> records[k]]
                         /\ lastOp'.ok =>
                               (lastOp'.inserts = chunks /\ inserted = Len(records))
                         /\ ~lastOp'.ok =>
                               inserted = (lastOp'.inserts - 1) * batch_size]_vars

\* a publish of batch_size + 1 records whose second insert failed: False,
\* with the first chunk left in the sink
C28_Witness ==
    /\ lastOp.op = "publish_results"
    /\ Len(lastOp.records) = batch_size + 1
    /\ ~lastOp.ok
    /\ lastOp.inserts = 2
    /\ Len(scout_results) >= batch_size
    /\ scout_results[Len(scout_results)].generated_at = lastOp.generated_at

\* ======================================= daily_automation.py: daily rankings
\* records[:10] of _create_daily_rankings, batch_size of _store_daily_rankings
top_per_category == 10
rankings_batch_size == 50

\* a scored record, as far as the rankings read it
DailyScored(app_id, category, total) ==
    [app_id |-> app_id, category |-> category, total |-> total]

\* the scored records a run may hand over: none; two categories; one
\* category with equal totals; more than ten of one category; and six
\* categories of eleven records each
DailyScoredLists ==
    { <<>>,
      <<DailyScored(1, "Utilities", 250), DailyScored(2, "Productivity", 300)>>,
      <<DailyScored(1, "Utilities", 250), DailyScored(2, "Utilities", 300),
        DailyScored(3, "Utilities", 300)>>,
      [k \in 1..12 |-> DailyScored(k, IF k = 4 THEN "Productivity" ELSE "Utilities",
                                   200 + 50 * (k % 3))],
      [k \in 1..66 |-> DailyScored(k, <<"c1", "c2", "c3", "c4", "c5", "c6">>[(k % 6) + 1],
                                   200 + 50 * (k % 4))] }

\* the keys of category_groups, in the order they were first met
RECURSIVE CategoryOrder(_, _)
CategoryOrder(records, seen) ==
    IF records = <<>> THEN <<>>
    ELSE IF Head(records).category \in seen
    THEN CategoryOrder(Tail(records), seen)
    ELSE <<Head(records).category>>
             \o CategoryOrder(Tail(records), seen \cup {Head(records).category})

\* one record put into a sorted list behind those not ranked below it
RECURSIVE InsertByTotal(_, _)
InsertByTotal(sorted, record) ==
    IF sorted = <<>> THEN <<record>>
    ELSE IF Head(sorted).total >= record.total
    THEN <<Head(sorted)>> \o InsertByTotal(Tail(sorted), record)
    ELSE <<record>> \o sorted

\* records.sort(key=lambda x: x.total, reverse=True): stable
RECURSIVE SortByTotalDesc(_)
SortByTotalDesc(records) ==
    IF records = <<>> THEN <<>>
    ELSE InsertByTotal(SortByTotalDesc(SubSeq(records, 1, Len(records) - 1)),
                       records[Len(records)])

RankingsOfCategory(records, category, today) ==
    LET group == SelectSeq(records, LAMBDA r : r.category = category)
        top_records == Truncate(SortByTotalDesc(group), top_per_category)
    IN  [rank \in 1..Len(top_records) |->
            [date |-> today, category |-> category,
             app_id |-> top_records[rank].app_id,
             total |-> top_records[rank].total,
             category_rank |-> rank]]

RECURSIVE RankingsOfCategories(_, _, _)
RankingsOfCategories(records, categories, today) ==
    IF categories = <<>> THEN <<>>
    ELSE RankingsOfCategory(records, Head(categories), today)
             \o RankingsOfCategories(records, Tail(categories), today)

_create_daily_rankings(scored_records, today) ==
    RankingsOfCategories(scored_records, CategoryOrder(scored_records, {}), today)

\* a delete that leaves the day's rows
DeleteNoRankings(table, today) == table

\* table("daily_rankings").delete().eq("date", self.today.isoformat())
DeleteEqDate(table, today) ==
    SelectSeq(table, LAMBDA row : row.date # today)

RankingBatches(n) == (n + rankings_batch_size - 1) \div rankings_batch_size

\* the rows of the first upto batches
FirstBatches(rows, upto) ==
    Truncate(rows, upto * rankings_batch_size)

\* _store_daily_rankings: fail_at = 0, the delete raises; fail_at = c, the
\* insert of batch c raises or returns no data; beyond, all succeed
_store_daily_rankings(table, rankings, today, fail_at) ==
    LET batches == RankingBatches(Len(rankings))
    IN  IF fail_at = 0 THEN [sink |-> table, ok |-> FALSE]
        ELSE IF fail_at > batches
        THEN [sink |-> DeleteEqDate(table, today) \o rankings, ok |-> TRUE]
        ELSE [sink |-> DeleteEqDate(table, today)
                           \o FirstBatches(rankings, fail_at - 1),
              ok |-> FALSE]

\* run_daily_collection from the scored records on: nothing is stored when
\* there are none or a phase before the store raises
RunDailyRankings(scored_records, today, raises, fail_at) ==
    LET rankings == _create_daily_rankings(scored_records, today)
        stores == scored_records # <<>> /\ ~raises
        out == IF stores
               THEN _store_daily_rankings(daily_rankings, rankings, today, fail_at)
               ELSE [sink |-> daily_rankings, ok |-> FALSE]
    IN  /\ nCalls < MaxCalls
        /\ nCalls' = nCalls + 1
        /\ daily_rankings' = out.sink
        /\ lastOp' = [op |-> "run_daily_rankings", records |-> scored_records,
                      today |-> today, rankings |-> rankings,
                      stores |-> stores, ok |-> out.ok,
                      replaced |-> Len(daily_rankings)
                                     - Len(DeleteEqDate(daily_rankings, today))]
        /\ UNCHANGED <<now, rankVars, htmlVars, scout_results, runVars>>

InitDaily ==
    /\ InitIdle
    /\ mode = "none"

\* self.today is read when the automation is built: the day of the run, or
\* the day before when the run goes past midnight
RunDailyRankingsStep ==
    \E scored_records \in DailyScoredLists, raises \in BOOLEAN,
       today \in {d \in {Date(now) - 1, Date(now)} : d >= 0} :
        \E fail_at \in 0..(RankingBatches(Len(scored_records)) + 1) :
            RunDailyRankings(scored_records, today, raises, fail_at)

NextDaily ==
    \/ RunDailyRankingsStep
    \/ AdvanceDay

SpecDaily == InitDaily /\ [][NextDaily]_vars

\* ---------------------------------------------------- claims: daily rankings
RowsOfDate(table, date_str) == SelectSeq(table, LAMBDA row : row.date = date_str)

\* C29: the rankings of a run hold for each category at most ten rows, of
\* category_rank 1..n with totals that never rise along the ranks; a store
\* whose delete went through leaves of the day's rows only rows of this
\* run, and a run that succeeds leaves for its date exactly its own rows,
\* whatever an earlier run had stored for that date.
C29_SecondRunReplacesTheDay ==
    [][(lastOp'.op = "run_daily_rankings" /\ lastOp' # lastOp) =>
          LET rankings == lastOp'.rankings
              today == lastOp'.today
              of(c) == SelectSeq(rankings, LAMBDA row : row.category = c)
          IN  /\ \A c \in {rankings[k].category : k \in 1..Len(rankings)} :
                    LET rows == of(c)
                    IN  /\ Len(rows) <= 10
                        /\ \A i \in 1..Len(rows) : rows[i].category_rank = i
                        /\ \A i \in 1..(Len(rows) - 1) :
                              rows[i].total >= rows[i + 1].total
              /\ lastOp'.ok => RowsOfDate(daily_rankings', today) = rankings
              /\ RowsOfDate(daily_rankings', today) # RowsOfDate(daily_rankings, today)
                    => \E n \in 0..Len(rankings) :
                           RowsOfDate(daily_rankings', today) = SubSeq(rankings, 1, n)
              /\ \A d \in 0..MaxDay :
                    d # today =>
                        RowsOfDate(daily_rankings', d) = RowsOfDate(daily_rankings, d)]_vars

\* a second successful run on a date replaced the rows an earlier run had
\* stored for it, with a category cut to its ten best
C29_Witness ==
    /\ lastOp.op = "run_daily_rankings"
    /\ lastOp.ok
    /\ lastOp.replaced >= 1
    /\ Len(lastOp.records) = 12
    /\ Len(lastOp.rankings) = 11
    /\ RowsOfDate(daily_rankings, lastOp.today) = lastOp.rankings

\* --------------------------------------- claims: monetization in score_app
\* the monetization of a scored record is 1.0, 3.0 or 5.0, and 3.0 for a
\* free app with in-app purchases
MonetizationWithoutDescription(rec) ==
    /\ rec.monetization \in {100, 300, 500}
    /\ (rec.price = 0 /\ rec.has_iap) => rec.monetization = 300

\* C30: score_app evaluates monetization with an empty description, so
\* every record scored by score_app or score_apps has monetization 1.0, 3.0
\* or 5.0, never 4.0, and a free app with in-app purchases has exactly 3.0.
C30_MonetizationNeverFour ==
    /\ lastOp.op = "score_app" =>
           \A k \in 1..Len(lastOp.result) :
               MonetizationWithoutDescription(lastOp.result[k])
    /\ lastOp.op = "score_apps" =>
           \A k \in 1..Len(lastOp.result) :
               MonetizationWithoutDescription(lastOp.result[k])

\* a free app with in-app purchases was scored: monetization 3.0
C30_Witness ==
    /\ lastOp.op = "score_app"
    /\ lastOp.app_data.price = 0
    /\ lastOp.app_data.has_iap
    /\ lastOp.result # <<>>
    /\ lastOp.result[1].monetization = 300

====
